---- MODULE Spec2Model ----
(***************************************************************************)
(* The covenant executor: Engine.Evaluate, the contract store that         *)
(* LoadContract swaps under Engine.mu, fact gathering, derivation, rule    *)
(* evaluation and verdict resolution (covenant-poc/executor/engine).       *)
(***************************************************************************)
EXTENDS Integers, Sequences, FiniteSets, TLC

(* ------------------------------------------------------------------ *)
(* Go values of type `any`, tagged by their dynamic type.             *)
(* ------------------------------------------------------------------ *)
NilV == [t |-> "nil"]
Num(n) == [t |-> "num", n |-> n]
Str(s) == [t |-> "str", s |-> s]
Bool(b) == [t |-> "bool", b |-> b]
MapV(m) == [t |-> "map", m |-> m]
StrList(l) == [t |-> "strs", l |-> l]

\* toFloat: only the numeric dynamic types convert.
toFloatOk(v) == v.t = "num"

toFloat(v) == IF v.t = "num" THEN v.n ELSE 0

\* fmt.Sprintf("%v", v) for the values the engine compares.
RECURSIVE SprintList(_)
SprintList(l) ==
    IF Len(l) = 0 THEN ""
    ELSE IF Len(l) = 1 THEN l[1]
    ELSE l[1] \o " " \o SprintList(Tail(l))

Sprint(v) ==
    CASE v.t = "nil" -> "<nil>"
      [] v.t = "num" -> ToString(v.n)
      [] v.t = "str" -> v.s
      [] v.t = "bool" -> (IF v.b THEN "true" ELSE "false")
      [] v.t = "strs" -> "[" \o SprintList(v.l) \o "]"
      [] OTHER -> "map[...]"

applyOp(op, left, right) ==
    CASE op = "equals" -> Sprint(left) = Sprint(right)
      [] op = "greater_than" ->
            toFloatOk(left) /\ toFloatOk(right) /\ toFloat(left) > toFloat(right)
      [] op = "less_than" ->
            toFloatOk(left) /\ toFloatOk(right) /\ toFloat(left) < toFloat(right)
      [] OTHER -> FALSE

(* ------------------------------------------------------------------ *)
(* FactSet: fact names are dotted strings, kept as their segments.    *)
(* ------------------------------------------------------------------ *)
NewFactSet == << >>

\* Faulty variant of FactSetSet: the value is not stored.
FactSetSetDropsValue(facts, name, val) == facts

FactSetSet(facts, name, val) ==
    [k \in (DOMAIN facts) \cup {name} |-> IF k = name THEN val ELSE facts[k]]

RECURSIVE navigatePath(_, _)
navigatePath(v, parts) ==
    IF Len(parts) = 0 THEN [val |-> v, ok |-> TRUE]
    ELSE IF v.t # "map" THEN [val |-> NilV, ok |-> FALSE]
    ELSE IF parts[1] \notin DOMAIN v.m THEN [val |-> NilV, ok |-> FALSE]
    ELSE navigatePath(v.m[parts[1]], Tail(parts))

RECURSIVE GetPathFrom(_, _, _)
GetPathFrom(facts, path, i) ==
    IF i <= 0 THEN [val |-> NilV, ok |-> FALSE]
    ELSE IF SubSeq(path, 1, i) \in DOMAIN facts
         THEN navigatePath(facts[SubSeq(path, 1, i)], SubSeq(path, i + 1, Len(path)))
         ELSE GetPathFrom(facts, path, i - 1)

\* Faulty variant of GetPath: the prefixes are tried from the shortest.
GetPathShortestPrefix(facts, path) ==
    IF path \in DOMAIN facts THEN [val |-> facts[path], ok |-> TRUE]
    ELSE IF \E i \in 1..(Len(path) - 1) : SubSeq(path, 1, i) \in DOMAIN facts
    THEN LET i == CHOOSE j \in 1..(Len(path) - 1) :
                      /\ SubSeq(path, 1, j) \in DOMAIN facts
                      /\ \A k \in 1..(j - 1) : SubSeq(path, 1, k) \notin DOMAIN facts
         IN  navigatePath(facts[SubSeq(path, 1, i)], SubSeq(path, i + 1, Len(path)))
    ELSE [val |-> NilV, ok |-> FALSE]

GetPath(facts, path) ==
    IF path \in DOMAIN facts THEN [val |-> facts[path], ok |-> TRUE]
    ELSE GetPathFrom(facts, path, Len(path) - 1)

Snapshot(facts) == [k \in DOMAIN facts |-> facts[k]]

(* ------------------------------------------------------------------ *)
(* Contract types.  A nil pointer is the empty sequence, a non-nil    *)
(* pointer a one-element sequence; the empty string is << >> for a    *)
(* fact name and "" elsewhere.                                        *)
(* ------------------------------------------------------------------ *)
NoFact == << >>

Condition(all, any, not, fact, eq, gt, lt, in) ==
    [All |-> all, Any |-> any, Not |-> not, Fact |-> fact,
     Equals |-> eq, GreaterThan |-> gt, LessThan |-> lt, In |-> in]

\* The zero Condition.
NoCondition == Condition(<< >>, << >>, << >>, NoFact, NilV, NilV, NilV, << >>)

FactDef(source, required, onMissing) ==
    [Source |-> source, Required |-> required, OnMissing |-> onMissing]

DerivationArg(fact, op, value) == [Fact |-> fact, Op |-> op, Value |-> value]

Derivation(fn, args) == [Fn |-> fn, Args |-> args]

ErrorEnvelope(code, status) == [Code |-> code, HttpStatus |-> status]

VerdictDef(deny, escalate, require, flag) ==
    [Deny |-> deny, Escalate |-> escalate, Require |-> require, Flag |-> flag]

RuleDef(id, when, verdict) == [ID |-> id, When |-> when, Verdict |-> verdict]

Verdict(type, code, reason, error, queue) ==
    [Type |-> type, Code |-> code, Reason |-> reason, Error |-> error, Queue |-> queue]

OperationDef(constrainedBy, transitions) ==
    [ConstrainedBy |-> constrainedBy, Transitions |-> transitions]

EntityTransitionRef(entity, from, to) == [Entity |-> entity, From |-> from, To |-> to]

Transition(from, to, via) == [From |-> from, To |-> to, Via |-> via]

\* strings.HasPrefix(def.Source, "port:") and portName(def.Source)
IsPortSource(source) == source \notin {"input", "ctx"}

(* ------------------------------------------------------------------ *)
(* evalCondition                                                      *)
(* ------------------------------------------------------------------ *)
RECURSIVE evalCondition(_, _)
evalCondition(cond, facts) ==
    IF Len(cond.All) > 0
    THEN \A i \in 1..Len(cond.All) : evalCondition(cond.All[i], facts)
    ELSE IF Len(cond.Any) > 0
    THEN \E i \in 1..Len(cond.Any) : evalCondition(cond.Any[i], facts)
    ELSE IF Len(cond.Not) > 0
    THEN ~evalCondition(cond.Not[1], facts)
    ELSE IF cond.Fact # NoFact
    THEN LET val == GetPath(facts, cond.Fact).val IN
         IF cond.Equals # NilV THEN applyOp("equals", val, cond.Equals)
         ELSE IF cond.GreaterThan # NilV THEN applyOp("greater_than", val, cond.GreaterThan)
         ELSE IF cond.LessThan # NilV THEN applyOp("less_than", val, cond.LessThan)
         ELSE IF Len(cond.In) > 0
         THEN \E i \in 1..Len(cond.In) : applyOp("equals", val, cond.In[i])
         ELSE TRUE
    ELSE TRUE

(* ------------------------------------------------------------------ *)
(* neededBaseFacts: st = [needed, visited] is threaded through the    *)
(* walk the way the closure addPath updates its two maps.             *)
(* ------------------------------------------------------------------ *)
RECURSIVE addPath(_, _, _)
RECURSIVE addArgs(_, _, _, _)
RECURSIVE addPrefix(_, _, _, _)
addPath(c, st, path) ==
    IF path \in DOMAIN c.Facts
    THEN [st EXCEPT !.needed = @ \cup {path}]
    ELSE IF path \in DOMAIN c.DerivedFacts
    THEN IF path \in st.visited THEN st
         ELSE addArgs(c, [st EXCEPT !.visited = @ \cup {path}],
                      c.DerivedFacts[path].Args, 1)
    ELSE addPrefix(c, st, path, Len(path) - 1)

addArgs(c, st, args, i) ==
    IF i > Len(args) THEN st
    ELSE addArgs(c, IF args[i].Fact # NoFact THEN addPath(c, st, args[i].Fact) ELSE st,
                 args, i + 1)

addPrefix(c, st, path, i) ==
    IF i <= 0 THEN st
    ELSE LET prefix == SubSeq(path, 1, i) IN
         IF prefix \in DOMAIN c.Facts THEN [st EXCEPT !.needed = @ \cup {prefix}]
         ELSE IF prefix \in DOMAIN c.DerivedFacts THEN addPath(c, st, prefix)
         ELSE addPrefix(c, st, path, i - 1)

RECURSIVE collectFromCondition(_, _, _)
RECURSIVE collectFromList(_, _, _, _)
collectFromCondition(c, st, cond) ==
    LET s1 == IF cond.Fact # NoFact THEN addPath(c, st, cond.Fact) ELSE st
        s2 == collectFromList(c, s1, cond.All, 1)
        s3 == collectFromList(c, s2, cond.Any, 1)
    IN  collectFromList(c, s3, cond.Not, 1)

collectFromList(c, st, conds, i) ==
    IF i > Len(conds) THEN st
    ELSE collectFromList(c, collectFromCondition(c, st, conds[i]), conds, i + 1)

RECURSIVE collectRules(_, _, _, _)
collectRules(c, st, ruleID, i) ==
    IF i > Len(c.Rules) THEN st
    ELSE collectRules(c,
            IF c.Rules[i].ID = ruleID THEN collectFromCondition(c, st, c.Rules[i].When)
            ELSE st,
            ruleID, i + 1)

RECURSIVE collectConstrainedBy(_, _, _, _)
collectConstrainedBy(c, st, ids, i) ==
    IF i > Len(ids) THEN st
    ELSE collectConstrainedBy(c, collectRules(c, st, ids[i], 1), ids, i + 1)

neededBaseFacts(c, operation) ==
    IF operation \notin DOMAIN c.Operations THEN {}
    ELSE collectConstrainedBy(c, [needed |-> {}, visited |-> {}],
                              c.Operations[operation].ConstrainedBy, 1).needed

(* ------------------------------------------------------------------ *)
(* topoSort, evalDerivation, deriveFacts                              *)
(* ------------------------------------------------------------------ *)
\* The closure visit: st = [visited, order].
RECURSIVE visit(_, _, _)
RECURSIVE visitArgs(_, _, _, _)
\* Faulty variant of visit: a name that is not in dfs is appended as well.
visitAppendsUnknown(dfs, st, name) ==
    IF name \in st.visited THEN st
    ELSE LET s1 == [st EXCEPT !.visited = @ \cup {name}] IN
         IF name \notin DOMAIN dfs THEN [s1 EXCEPT !.order = Append(@, name)]
         ELSE LET s2 == visitArgs(dfs, s1, dfs[name].Args, 1) IN
              [s2 EXCEPT !.order = Append(@, name)]

visit(dfs, st, name) ==
    IF name \in st.visited THEN st
    ELSE LET s1 == [st EXCEPT !.visited = @ \cup {name}] IN
         IF name \notin DOMAIN dfs THEN s1
         ELSE LET s2 == visitArgs(dfs, s1, dfs[name].Args, 1) IN
              [s2 EXCEPT !.order = Append(@, name)]

visitArgs(dfs, st, args, i) ==
    IF i > Len(args) THEN st
    ELSE visitArgs(dfs, IF args[i].Fact # NoFact THEN visit(dfs, st, args[i].Fact) ELSE st,
                   args, i + 1)

RECURSIVE visitAll(_, _, _, _)
visitAll(dfs, st, names, i) ==
    IF i > Len(names) THEN st
    ELSE visitAll(dfs, visit(dfs, st, names[i]), names, i + 1)

\* Faulty variant of topoSort: the map's iteration order, unsorted.
topoSortUnsorted(dfs, iter) == iter

\* `iter` is the order in which `for name := range dfs` yields the keys.
topoSort(dfs, iter) == visitAll(dfs, [visited |-> {}, order |-> << >>], iter, 1).order

\* Every order a range over a map with key set S can take.
IterOrders(S) ==
    {f \in [1..Cardinality(S) -> S] : \A i, j \in 1..Cardinality(S) : i # j => f[i] # f[j]}

getArg(arg, facts) ==
    IF arg.Fact # NoFact THEN GetPath(facts, arg.Fact).val ELSE arg.Value

IsBool(v) == v.t = "bool"

compareFloats(fn, fa, fb) ==
    CASE fn = "greater_than" -> fa > fb
      [] fn = "greater_or_equal" -> fa >= fb
      [] OTHER -> fa < fb

\* The three comparison cases of evalDerivation, which differ in the operator.
Compare2(d, facts) ==
    IF Len(d.Args) < 2 THEN Bool(FALSE)
    ELSE LET a == getArg(d.Args[1], facts)
             b == getArg(d.Args[2], facts)
         IN  IF toFloatOk(a) /\ toFloatOk(b)
             THEN Bool(compareFloats(d.Fn, toFloat(a), toFloat(b)))
             ELSE Bool(FALSE)

AndArgOk(arg, facts) ==
    IF arg.Fact # NoFact /\ arg.Op # ""
    THEN applyOp(arg.Op, GetPath(facts, arg.Fact).val, arg.Value)
    ELSE LET v == getArg(arg, facts) IN ~(IsBool(v) /\ ~v.b)

\* Faulty variant of evalDerivation: the default case returns (false, nil) like
\* the short-argument cases, and so does every other case.
evalDerivationNeverFails(d, facts) == [val |-> Bool(FALSE), err |-> FALSE]

\* evalDerivation returns (value, error): err is TRUE for the default case.
evalDerivation(d, facts) ==
    CASE d.Fn = "greater_than" -> [val |-> Compare2(d, facts), err |-> FALSE]
      [] d.Fn = "greater_or_equal" -> [val |-> Compare2(d, facts), err |-> FALSE]
      [] d.Fn = "less_than" -> [val |-> Compare2(d, facts), err |-> FALSE]
      [] d.Fn = "equals" ->
            [val |-> IF Len(d.Args) < 2 THEN Bool(FALSE)
                     ELSE Bool(Sprint(getArg(d.Args[1], facts))
                               = Sprint(getArg(d.Args[2], facts))),
             err |-> FALSE]
      [] d.Fn = "and" ->
            [val |-> Bool(\A i \in 1..Len(d.Args) : AndArgOk(d.Args[i], facts)),
             err |-> FALSE]
      [] d.Fn = "or" ->
            [val |-> Bool(\E i \in 1..Len(d.Args) :
                            LET v == getArg(d.Args[i], facts) IN IsBool(v) /\ v.b),
             err |-> FALSE]
      [] d.Fn = "not" ->
            [val |-> IF Len(d.Args) = 0 THEN Bool(TRUE)
                     ELSE LET v == getArg(d.Args[1], facts) IN
                          IF IsBool(v) THEN Bool(~v.b) ELSE Bool(FALSE),
             err |-> FALSE]
      [] OTHER -> [val |-> NilV, err |-> TRUE]

\* deriveFacts over the order topoSort returned: (facts, error).
RECURSIVE deriveOrder(_, _, _, _)
deriveOrder(c, facts, order, i) ==
    IF i > Len(order) THEN [facts |-> facts, err |-> FALSE]
    ELSE LET r == evalDerivation(c.DerivedFacts[order[i]], facts) IN
         IF r.err THEN [facts |-> facts, err |-> TRUE]
         ELSE deriveOrder(c, FactSetSet(facts, order[i], r.val), order, i + 1)

deriveFacts(c, facts, iter) == deriveOrder(c, facts, topoSort(c.DerivedFacts, iter), 1)

(* ------------------------------------------------------------------ *)
(* evaluateRules, resolveVerdicts, dryRunOutcome                      *)
(* ------------------------------------------------------------------ *)
ruleVerdict(v) ==
    IF Len(v.Deny) > 0
    THEN << Verdict("deny", v.Deny[1].Code, v.Deny[1].Reason, <<v.Deny[1].Error>>, "") >>
    ELSE IF Len(v.Escalate) > 0
    THEN << Verdict("escalate", "", v.Escalate[1].Reason, << >>, v.Escalate[1].Queue) >>
    ELSE IF Len(v.Require) > 0
    THEN << Verdict("require", "", v.Require[1].Reason, << >>, "") >>
    ELSE IF Len(v.Flag) > 0
    THEN << Verdict("flag", v.Flag[1].Code, v.Flag[1].Reason, << >>, "") >>
    ELSE << >>

\* Faulty variant of evaluateFrom: the loop stops at the first rule that matches.
RECURSIVE evaluateFirstMatch(_, _, _, _)
evaluateFirstMatch(c, ruleSet, facts, i) ==
    IF i > Len(c.Rules) THEN << >>
    ELSE IF c.Rules[i].ID \in ruleSet /\ evalCondition(c.Rules[i].When, facts)
    THEN ruleVerdict(c.Rules[i].Verdict)
    ELSE evaluateFirstMatch(c, ruleSet, facts, i + 1)

RECURSIVE evaluateFrom(_, _, _, _)
evaluateFrom(c, ruleSet, facts, i) ==
    IF i > Len(c.Rules) THEN << >>
    ELSE (IF c.Rules[i].ID \in ruleSet /\ evalCondition(c.Rules[i].When, facts)
          THEN ruleVerdict(c.Rules[i].Verdict)
          ELSE << >>) \o evaluateFrom(c, ruleSet, facts, i + 1)

\* Faulty variant of evaluateRules: the operation's constrained_by is not consulted.
evaluateRulesUnfiltered(c, operation, facts) ==
    evaluateFrom(c, {c.Rules[i].ID : i \in 1..Len(c.Rules)}, facts, 1)

evaluateRules(c, operation, facts) ==
    LET ids == IF operation \in DOMAIN c.Operations
               THEN c.Operations[operation].ConstrainedBy
               ELSE << >>
        ruleSet == {ids[i] : i \in 1..Len(ids)}
    IN  evaluateFrom(c, ruleSet, facts, 1)

\* Faulty variant of priority: escalate ranked above deny.
prioritySwapped(type) ==
    CASE type = "deny" -> 3
      [] type = "escalate" -> 4
      [] type = "require" -> 2
      [] type = "flag" -> 1
      [] OTHER -> 0

priority(type) ==
    CASE type = "deny" -> 4
      [] type = "escalate" -> 3
      [] type = "require" -> 2
      [] type = "flag" -> 1
      [] OTHER -> 0

\* Faulty variant of resolveFrom: a later verdict of equal priority replaces best.
RECURSIVE resolveFromKeepsLast(_, _, _)
resolveFromKeepsLast(verdicts, best, i) ==
    IF i > Len(verdicts) THEN best
    ELSE resolveFromKeepsLast(verdicts,
            IF best = 0 \/ priority(verdicts[i].Type) >= priority(verdicts[best].Type)
            THEN i ELSE best,
            i + 1)

\* The loop of resolveVerdicts; best is an index into verdicts, 0 for nil.
RECURSIVE resolveFrom(_, _, _)
resolveFrom(verdicts, best, i) ==
    IF i > Len(verdicts) THEN best
    ELSE resolveFrom(verdicts,
            IF best = 0 \/ priority(verdicts[i].Type) > priority(verdicts[best].Type)
            THEN i ELSE best,
            i + 1)

resolveVerdicts(verdicts) ==
    LET best == resolveFrom(verdicts, 0, 1) IN
    IF best = 0 THEN << >> ELSE << verdicts[best] >>

dryRunOutcome(v) ==
    IF Len(v) = 0 THEN "would_execute"
    ELSE CASE v[1].Type = "deny" -> "would_deny"
           [] v[1].Type = "escalate" -> "would_escalate"
           [] v[1].Type = "require" -> "would_require"
           [] OTHER -> "would_execute_with_flags"

(* ------------------------------------------------------------------ *)
(* The contracts the loader installs.  K1 follows the billing example *)
(* (facts.cue, rules.cue, operations.cue); K2 and K3 are reloads that *)
(* change policies, rule order, operations and the derivation library *)
(* use.                                                               *)
(* ------------------------------------------------------------------ *)
\* entities.cue: the invoice state machine.
InvoiceEntity ==
    [States |-> <<"draft", "submitted", "approved", "paid", "cancelled">>,
     Initial |-> "draft",
     Terminal |-> <<"paid", "cancelled">>,
     Transitions |-> <<Transition("draft", "submitted", "SubmitInvoice"),
                       Transition("submitted", "approved", "ApproveInvoice"),
                       Transition("approved", "paid", "ProcessPayment"),
                       Transition("*", "cancelled", "CancelInvoice")>>]

\* operations.cue: ProcessPayment's transition.
PayTransition == EntityTransitionRef("invoice", "approved", "paid")

F_amount == <<"payment", "amount">>
F_amountValue == <<"payment", "amount", "value">>
F_status == <<"customer", "status">>
F_processor == <<"payment", "processor", "status">>
D_large == <<"payment", "large">>
F_roles == <<"user", "roles">>
F_tenant == <<"user", "tenant">>

Leaf(fact, eq, gt, lt) == Condition(<< >>, << >>, << >>, fact, eq, gt, lt, << >>)
AllOf(conds) == Condition(conds, << >>, << >>, NoFact, NilV, NilV, NilV, << >>)
NotOf(cond) == Condition(<< >>, << >>, <<cond>>, NoFact, NilV, NilV, NilV, << >>)

Deny(code, status) ==
    VerdictDef(<<[Code |-> code, Reason |-> code, Error |-> ErrorEnvelope(code, status)]>>,
               << >>, << >>, << >>)
Escalate(queue) == VerdictDef(<< >>, <<[Queue |-> queue, Reason |-> queue]>>, << >>, << >>)
Require(reason) == VerdictDef(<< >>, << >>, <<[Reason |-> reason]>>, << >>)
Flag(code) == VerdictDef(<< >>, << >>, << >>, <<[Code |-> code, Reason |-> code]>>)

R_closed == RuleDef("closed", AllOf(<<Leaf(F_status, Str("closed"), NilV, NilV)>>),
                    Deny("ACCOUNT_CLOSED", 422))
R_large == RuleDef("large", AllOf(<<Leaf(D_large, Bool(TRUE), NilV, NilV)>>),
                   Deny("TOO_LARGE", 402))
R_down == RuleDef("down", AllOf(<<Leaf(F_processor, Str("down"), NilV, NilV)>>),
                  Deny("PROCESSOR_UNAVAILABLE", 503))
R_review == RuleDef("review", Leaf(F_amountValue, NilV, Num(1), NilV), Escalate("review"))
R_confirm == RuleDef("confirm", Leaf(F_amountValue, NilV, Num(0), NilV), Require("confirm"))
R_notice == RuleDef("notice", Leaf(F_amountValue, NilV, Num(0), NilV), Flag("NOTICE"))
R_audit == RuleDef("audit", NotOf(Leaf(F_amountValue, NilV, NilV, Num(1))), Flag("AUDIT"))

R_customer == RuleDef("customer", Leaf(F_roles, Str("[customer]"), NilV, NilV),
                      Flag("CUSTOMER"))
R_tenant == RuleDef("tenant", Leaf(F_tenant, Str("blocked"), NilV, NilV),
                    Deny("TENANT_BLOCKED", 403))

LargeDerivation ==
    Derivation("greater_than", <<DerivationArg(F_amountValue, "", NilV),
                                 DerivationArg(NoFact, "", Num(2))>>)

K1 == [Entities |-> [invoice |-> InvoiceEntity],
       Facts |-> (F_amount :> FactDef("input", TRUE, "")
                  @@ F_status :> FactDef("port:customerRepo", TRUE, "system_error")
                  @@ F_processor :> FactDef("port:paymentProcessor", TRUE, "deny")),
       DerivedFacts |-> (D_large :> LargeDerivation),
       Rules |-> <<R_closed, R_large, R_down, R_review, R_confirm, R_notice, R_audit>>,
       Operations |-> [pay |-> OperationDef(<<"closed", "large", "down", "notice">>,
                                            <<PayTransition>>),
                       refund |-> OperationDef(<<"review", "confirm", "notice">>, << >>),
                       quote |-> OperationDef(<<"confirm", "notice">>, << >>),
                       view |-> OperationDef(<<"notice", "audit">>, << >>),
                       ping |-> OperationDef(<< >>, << >>)]]

K2 == [Entities |-> [invoice |-> InvoiceEntity],
       Facts |-> (F_amount :> FactDef("input", FALSE, "")
                  @@ F_status :> FactDef("port:customerRepo", TRUE, "skip")),
       DerivedFacts |-> (D_large :> LargeDerivation),
       Rules |-> <<R_audit, R_large, R_closed, R_notice>>,
       Operations |-> [pay |-> OperationDef(<<"closed", "large", "audit">>, << >>),
                       refund |-> OperationDef(<<"notice">>, << >>),
                       quote |-> OperationDef(<<"audit">>, << >>),
                       ping |-> OperationDef(<< >>, << >>)]]

K3 == [Entities |-> [invoice |-> InvoiceEntity],
       Facts |-> (F_status :> FactDef("port:customerRepo", TRUE, "deny")),
       DerivedFacts |-> (D_large :> Derivation("percentile", << >>)),
       Rules |-> <<R_closed>>,
       Operations |-> [pay |-> OperationDef(<<"closed">>, << >>),
                       ping |-> OperationDef(<< >>, << >>)]]

\* A contract with ctx-sourced facts (gatherFacts only knows user.roles) and a
\* port fact that declares no on_missing policy.
K4 == [Entities |-> [invoice |-> InvoiceEntity],
       Facts |-> (F_roles :> FactDef("ctx", TRUE, "")
                  @@ F_tenant :> FactDef("ctx", TRUE, "")
                  @@ F_status :> FactDef("port:customerRepo", TRUE, "skip")
                  @@ F_processor :> FactDef("port:paymentProcessor", TRUE, "")),
       DerivedFacts |-> << >>,
       Rules |-> <<R_closed, R_customer, R_tenant, R_down>>,
       Operations |-> [pay |-> OperationDef(<<"closed", "customer", "tenant", "down">>,
                                            << >>),
                       ping |-> OperationDef(<< >>, << >>)]]

(* The billing example contract: facts.cue, rules.cue, operations.cue. *)
F_customerId == <<"customer", "id">>
F_invoiceId == <<"invoice", "id">>
F_balance == <<"invoice", "balance">>
F_balanceValue == <<"invoice", "balance", "value">>
F_invoiceStatus == <<"invoice", "status">>
D_exceedsBalance == <<"payment", "exceeds_balance">>
D_canPay == <<"customer", "can_pay">>

NoPaymentsClosedAccounts ==
    RuleDef("no-payments-closed-accounts",
            AllOf(<<Leaf(F_status, Str("closed"), NilV, NilV)>>), Deny("ACCOUNT_CLOSED", 422))
InsufficientFunds ==
    RuleDef("insufficient-funds",
            AllOf(<<Leaf(D_exceedsBalance, Bool(TRUE), NilV, NilV)>>),
            Deny("INSUFFICIENT_FUNDS", 402))
ProcessorDown ==
    RuleDef("processor-down",
            AllOf(<<Leaf(F_processor, Str("down"), NilV, NilV)>>),
            Deny("PROCESSOR_UNAVAILABLE", 503))
LargePaymentFlag ==
    RuleDef("large-payment-flag",
            AllOf(<<Leaf(F_amountValue, NilV, Num(10000), NilV)>>), Flag("LARGE_PAYMENT"))

Billing ==
    [Entities |-> [invoice |-> InvoiceEntity],
     Facts |-> (F_customerId :> FactDef("input", TRUE, "")
                @@ F_invoiceId :> FactDef("input", TRUE, "")
                @@ F_amount :> FactDef("input", TRUE, "")
                @@ F_status :> FactDef("port:customerRepo", TRUE, "deny")
                @@ F_balance :> FactDef("port:invoiceRepo", TRUE, "system_error")
                @@ F_invoiceStatus :> FactDef("port:invoiceRepo", TRUE, "system_error")
                @@ F_processor :> FactDef("port:paymentProcessor", TRUE, "deny")),
     DerivedFacts |->
         (D_exceedsBalance :>
              Derivation("greater_than", <<DerivationArg(F_amountValue, "", NilV),
                                           DerivationArg(F_balanceValue, "", NilV)>>)
          @@ D_canPay :>
              Derivation("and", <<DerivationArg(F_status, "equals", Str("active")),
                                  DerivationArg(F_processor, "equals", Str("up"))>>)),
     Rules |-> <<NoPaymentsClosedAccounts, InsufficientFunds, ProcessorDown, LargePaymentFlag>>,
     Operations |->
         [ProcessPayment |->
              OperationDef(<<"no-payments-closed-accounts", "insufficient-funds",
                             "processor-down", "large-payment-flag">>, <<PayTransition>>),
          GetInvoice |-> OperationDef(<< >>, << >>)]]

NoContract == "nil"

ContractAt(ptr) ==
    CASE ptr = "K1" -> K1
      [] ptr = "K2" -> K2
      [] ptr = "K3" -> K3
      [] ptr = "K4" -> K4
      [] ptr = "billing" -> Billing

\* The LoadContract calls the reload loop may make: (contract, etag) pairs.
Loads == {<<"K1", "e1">>, <<"K2", "e2">>, <<"K3", "e3">>}

\* How many LoadContract calls one behaviour makes.
MaxLoads == 2

\* The requests a client may send.
OperationNames == {"pay", "refund", "quote", "view", "ping"}

Amounts == {1, 3}

Inputs == {<< >>} \cup {(F_amount :> MapV([value |-> Num(a)])) : a \in Amounts}

RequestETags == {"", "e1"}

Requests ==
    [Operation : OperationNames, Input : Inputs, DryRun : BOOLEAN,
     ContractETag : RequestETags]

\* What PortRegistry.Get may return for a fact: a value, or an error.
PortValues(name) ==
    IF name = F_status THEN {Str("active"), Str("closed")}
    ELSE IF name = F_processor THEN {Str("up"), Str("down")}
    ELSE {NilV}

\* No function is being evaluated on its own.
NoCall == [fn |-> ""]

\* NewCustomerRepo, NewInvoiceRepo and NewPaymentProcessor: the seed data.
SeededPorts ==
    [customers |-> [cust_123 |-> "active", cust_456 |-> "closed", cust_789 |-> "suspended"],
     invoices |-> [inv_001 |-> [status |-> "approved", balance |-> 1500],
                   inv_002 |-> [status |-> "draft", balance |-> 250],
                   inv_003 |-> [status |-> "approved", balance |-> 25000]],
     processor |-> "up"]

\* The Registry of main.go: NewRegistry() and the three Register calls, its
\* mutex unlocked and no Register call in progress.
MainRegistry ==
    [mu |-> [writer |-> FALSE, readers |-> 0],
     clients |-> {"customerRepo", "paymentProcessor", "invoiceRepo"},
     rpc |-> "idle", registers |-> 0]

\* NewFactSet(): the struct, with its mutex unlocked and an empty map.
NewLockedFactSet == [mu |-> [writer |-> FALSE, readers |-> 0], facts |-> << >>]

(* ------------------------------------------------------------------ *)
(* State                                                              *)
(* ------------------------------------------------------------------ *)
VARIABLES
    contract,      \* Engine.contract: NoContract or the loaded contract
    contractETag,  \* Engine.contractETag
    mu,            \* Engine.mu: [writer |-> BOOLEAN, readers |-> Nat]
    lpc,           \* LoadContract caller: where it is in LoadContract
    larg,          \* LoadContract's arguments (c, etag)
    loads,         \* LoadContract calls made so far
    installed,     \* the (contract, etag) pairs LoadContract calls have installed
    epc,           \* ETag caller: where it is in ETag
    etagSeen,      \* what the last ETag call returned
    pc,            \* Evaluate: where the invocation is
    req,           \* the Request
    cContract,     \* Evaluate's local `contract`
    cEtag,         \* Evaluate's local `etag`
    todo,          \* gatherFacts: needed names the range loop has not reached
    running,       \* gatherFacts: fetch goroutines started that have not sent
    ch,            \* gatherFacts: the buffered result channel
    facts,         \* the invocation's FactSet
    verdicts,      \* evaluateRules' result
    final,         \* resolveVerdicts' result: a nil or non-nil *Verdict
    resp,          \* what Evaluate returned
    getCalls,      \* calls of PortRegistry.Get
    execCalls,     \* calls of PortRegistry.Execute
    steps,         \* the steps of the algorithm completed without error
    skipped,       \* gatherFacts: port facts whose failed fetch fell under "skip"
    ctxDone,       \* the invocation's ctx has been cancelled
    logs,          \* what the POST /execute handler wrote with log.Printf
    invoiceStatus, \* InvoiceRepo: inv.status of the invoice the request names
    cond,          \* evalCondition's argument `cond`
    condValue,     \* what evalCondition returned: << >> before the call
    execResult,    \* what PortRegistry.Execute returned: "none" before the call
    call,          \* the arguments of a function evaluated on its own
    ret,           \* what that function returned: << >> before the call
    inmem,         \* the in-memory port adapters: customers, invoices, processor
    fset,          \* a FactSet shared by several goroutines: its mu and facts
    workers,       \* those goroutines: where each is, and what its Get returned
    registry,      \* ports.Registry: its mu, its clients, and the Register caller
    heap           \* the FactSets NewFactSet() has allocated, by address

vars == <<contract, contractETag, mu, lpc, larg, loads, installed, epc, etagSeen, pc, req, cContract,
          cEtag, todo, running, ch, facts, verdicts, final, resp, getCalls, execCalls,
          steps, skipped, ctxDone, logs, invoiceStatus, cond, condValue, execResult, call,
          ret, inmem, fset, workers, registry, heap>>

engineVars == <<contract, contractETag, lpc, larg, loads, installed, epc, etagSeen>>
evalVars == <<pc, req, cContract, cEtag, todo, running, ch, facts, verdicts, final,
              resp, getCalls, execCalls, steps, skipped>>
gatherVars == <<todo, running, ch, facts, getCalls, skipped>>
auxVars == <<call, ret, inmem, fset, workers, registry, heap>>
hostVars == <<ctxDone, logs, invoiceStatus, cond, condValue, execResult, auxVars>>

NoRequest == [Operation |-> "", Input |-> << >>, DryRun |-> FALSE, ContractETag |-> ""]

NoResponse == [kind |-> "none"]

\* Evaluate returned (nil, err).
ErrorReturn(msg) == [kind |-> "error", err |-> msg]

\* Evaluate returned (&Response{...}, nil).
Response(outcome, error, vs, output, snapshot, dryRun) ==
    [kind |-> "response", Outcome |-> outcome, Error |-> error, Verdicts |-> vs,
     Output |-> output, FactSnapshot |-> snapshot, DryRun |-> dryRun]

SystemError(code, status) ==
    Response("system_error", <<ErrorEnvelope(code, status)>>, << >>, << >>, << >>, FALSE)

Init ==
    /\ contract = NoContract
    /\ contractETag = ""
    /\ mu = [writer |-> FALSE, readers |-> 0]
    /\ lpc = "idle"
    /\ larg = << >>
    /\ loads = 0
    /\ installed = {}
    /\ epc = "idle"
    /\ etagSeen = ""
    /\ pc = "idle"
    /\ req = NoRequest
    /\ cContract = NoContract
    /\ cEtag = ""
    /\ todo = {}
    /\ running = {}
    /\ ch = << >>
    /\ facts = NewFactSet
    /\ verdicts = << >>
    /\ final = << >>
    /\ resp = NoResponse
    /\ getCalls = 0
    /\ execCalls = 0
    /\ steps = {}
    /\ skipped = {}
    /\ ctxDone = FALSE
    /\ logs = << >>
    /\ invoiceStatus = "approved"
    /\ cond = NoCondition
    /\ condValue = << >>
    /\ execResult = "none"
    /\ call = NoCall
    /\ ret = << >>
    /\ inmem = SeededPorts
    /\ fset = NewLockedFactSet
    /\ workers = << >>
    /\ registry = MainRegistry
    /\ heap = << >>

(* ------------------------------------------------------------------ *)
(* Engine.mu (sync.RWMutex)                                           *)
(* ------------------------------------------------------------------ *)
CanLock == ~mu.writer /\ mu.readers = 0

\* Faulty variant of CanRLock: a reader that does not wait for the writer.
CanRLockUnguarded == TRUE

CanRLock == ~mu.writer

(* ------------------------------------------------------------------ *)
(* LoadContract(c, etag)                                              *)
(* ------------------------------------------------------------------ *)
LoadLock ==
    /\ lpc = "idle"
    /\ loads < MaxLoads
    /\ CanLock
    /\ \E l \in Loads : larg' = l
    /\ mu' = [mu EXCEPT !.writer = TRUE]
    /\ lpc' = "set_contract"
    /\ loads' = loads + 1
    /\ UNCHANGED <<hostVars, epc, etagSeen, contract, contractETag, installed, pc, req, cContract, cEtag,
                   gatherVars, verdicts, final, resp, execCalls, steps>>

LoadSetContract ==
    /\ lpc = "set_contract"
    /\ contract' = larg[1]
    /\ lpc' = "set_etag"
    /\ UNCHANGED <<hostVars, epc, etagSeen, contractETag, mu, larg, loads, installed, pc, req, cContract, cEtag,
                   gatherVars, verdicts, final, resp, execCalls, steps>>

LoadSetETag ==
    /\ lpc = "set_etag"
    /\ contractETag' = larg[2]
    /\ installed' = installed \cup {larg}
    /\ lpc' = "unlock"
    /\ UNCHANGED <<hostVars, epc, etagSeen, contract, mu, larg, loads, pc, req, cContract, cEtag,
                   gatherVars, verdicts, final, resp, execCalls, steps>>

LoadUnlock ==
    /\ lpc = "unlock"
    /\ mu' = [mu EXCEPT !.writer = FALSE]
    /\ lpc' = "idle"
    /\ UNCHANGED <<hostVars, epc, etagSeen, contract, contractETag, larg, loads, installed, pc, req, cContract,
                   cEtag, gatherVars, verdicts, final, resp, execCalls, steps>>

(* ------------------------------------------------------------------ *)
(* ETag()                                                             *)
(* ------------------------------------------------------------------ *)
ETagRLock ==
    /\ epc = "idle"
    /\ CanRLock
    /\ mu' = [mu EXCEPT !.readers = @ + 1]
    /\ epc' = "rlocked"
    /\ UNCHANGED <<hostVars, contract, contractETag, lpc, larg, loads, installed, etagSeen, evalVars>>

\* `return e.contractETag`, then the deferred RUnlock.
ETagReturn ==
    /\ epc = "rlocked"
    /\ etagSeen' = contractETag
    /\ mu' = [mu EXCEPT !.readers = @ - 1]
    /\ epc' = "idle"
    /\ UNCHANGED <<hostVars, contract, contractETag, lpc, larg, loads, installed, evalVars>>

(* ------------------------------------------------------------------ *)
(* Evaluate(ctx, req)                                                 *)
(* ------------------------------------------------------------------ *)
\* A client sends a request; Evaluate takes the read lock.
EvalRLock ==
    /\ pc = "idle"
    /\ CanRLock
    /\ \E r \in Requests : req' = r
    /\ mu' = [mu EXCEPT !.readers = @ + 1]
    /\ pc' = "read_contract"
    /\ UNCHANGED <<hostVars, engineVars, cContract, cEtag, gatherVars, verdicts, final, resp,
                   execCalls, steps>>

EvalReadContract ==
    /\ pc = "read_contract"
    /\ cContract' = contract
    /\ pc' = "read_etag"
    /\ UNCHANGED <<hostVars, engineVars, mu, req, cEtag, gatherVars, verdicts, final, resp,
                   execCalls, steps>>

EvalReadETag ==
    /\ pc = "read_etag"
    /\ cEtag' = contractETag
    /\ pc' = "runlock"
    /\ UNCHANGED <<hostVars, engineVars, mu, req, cContract, gatherVars, verdicts, final, resp,
                   execCalls, steps>>

EvalRUnlock ==
    /\ pc = "runlock"
    /\ mu' = [mu EXCEPT !.readers = @ - 1]
    /\ pc' = "check"
    /\ UNCHANGED <<hostVars, engineVars, req, cContract, cEtag, gatherVars, verdicts, final, resp,
                   execCalls, steps>>

\* Faulty variant of versionMismatch: the `!= ""` test is missing.
versionMismatchAnyETag(r, etag) == r.ContractETag # etag

\* Line 54: the request names a version and it is not the captured one.
versionMismatch(r, etag) == r.ContractETag # "" /\ r.ContractETag # etag

\* Faulty variant of EvalCheck: the operation is not looked up.
EvalCheckWithoutLookup ==
    /\ pc = "check"
    /\ IF cContract = NoContract
       THEN /\ resp' = ErrorReturn("no contract loaded")
            /\ pc' = "done"
            /\ UNCHANGED <<todo, facts, steps>>
       ELSE IF versionMismatch(req, cEtag)
       THEN /\ resp' = SystemError("CONTRACT_VERSION_MISMATCH", 409)
            /\ pc' = "done"
            /\ UNCHANGED <<todo, facts, steps>>
       ELSE /\ todo' = neededBaseFacts(ContractAt(cContract), req.Operation)
            /\ facts' = NewFactSet
            /\ steps' = steps \cup {"version"}
            /\ pc' = IF todo' = {} THEN "collect" ELSE "gather"
            /\ UNCHANGED resp
    /\ UNCHANGED <<hostVars, skipped, engineVars, mu, req, cContract, cEtag, running, ch, getCalls,
                   verdicts, final, execCalls>>

\* Lines 49-70: nil contract, the etag validation, the operation lookup; then
\* gatherFacts creates the FactSet and computes the needed facts.
EvalCheck ==
    /\ pc = "check"
    /\ IF cContract = NoContract
       THEN /\ resp' = ErrorReturn("no contract loaded")
            /\ pc' = "done"
            /\ UNCHANGED <<todo, facts, steps>>
       ELSE IF versionMismatch(req, cEtag)
       THEN /\ resp' = SystemError("CONTRACT_VERSION_MISMATCH", 409)
            /\ pc' = "done"
            /\ UNCHANGED <<todo, facts, steps>>
       ELSE IF req.Operation \notin DOMAIN ContractAt(cContract).Operations
       THEN /\ resp' = ErrorReturn("unknown operation")
            /\ pc' = "done"
            /\ steps' = steps \cup {"version"}
            /\ UNCHANGED <<todo, facts>>
       ELSE /\ todo' = neededBaseFacts(ContractAt(cContract), req.Operation)
            /\ facts' = NewFactSet
            /\ steps' = steps \cup {"version"}
            /\ pc' = IF todo' = {} THEN "collect" ELSE "gather"
            /\ UNCHANGED resp
    /\ UNCHANGED <<hostVars, skipped, engineVars, mu, req, cContract, cEtag, running, ch, getCalls,
                   verdicts, final, execCalls>>

\* One iteration of `for name := range needed` (lines 179-203), in any order.
GatherIter ==
    /\ pc = "gather"
    /\ \E name \in todo :
         LET c == ContractAt(cContract)
             rest == todo \ {name}
             next == IF rest = {} THEN "collect" ELSE "gather"
         IN
         /\ todo' = rest
         /\ IF name \notin DOMAIN c.Facts
            THEN /\ pc' = next
                 /\ UNCHANGED <<facts, running, resp>>
            ELSE LET def == c.Facts[name] IN
                 IF def.Source = "input"
                 THEN IF name \in DOMAIN req.Input
                      THEN /\ facts' = FactSetSet(facts, name, req.Input[name])
                           /\ pc' = next
                           /\ UNCHANGED <<running, resp>>
                      ELSE IF def.Required
                      THEN /\ resp' = ErrorReturn("required input fact missing")
                           /\ pc' = "done"
                           /\ UNCHANGED <<facts, running>>
                      ELSE /\ pc' = next
                           /\ UNCHANGED <<facts, running, resp>>
                 ELSE IF def.Source = "ctx"
                 THEN /\ facts' = IF name = <<"user", "roles">>
                                  THEN FactSetSet(facts, name, StrList(<<"customer">>))
                                  ELSE facts
                      /\ pc' = next
                      /\ UNCHANGED <<running, resp>>
                 ELSE IF IsPortSource(def.Source)
                 THEN /\ running' = running \cup {name}
                      /\ pc' = next
                      /\ UNCHANGED <<facts, resp>>
                 ELSE /\ pc' = next
                      /\ UNCHANGED <<facts, running, resp>>
    /\ UNCHANGED <<hostVars, skipped, engineVars, mu, req, cContract, cEtag, ch, getCalls, verdicts, final,
                   execCalls, steps>>

\* A fetch goroutine (lines 197-201): ports.Get, then the send on the channel.
PortGet ==
    /\ \E name \in running :
         \E r \in [val : PortValues(name), err : {FALSE}] \cup {[val |-> NilV, err |-> TRUE]} :
            /\ running' = running \ {name}
            /\ ch' = Append(ch, [name |-> name, val |-> r.val, err |-> r.err,
                                 def |-> ContractAt(cContract).Facts[name]])
    /\ getCalls' = getCalls + 1
    /\ UNCHANGED <<hostVars, skipped, engineVars, mu, pc, req, cContract, cEtag, todo, facts, verdicts, final,
                   resp, execCalls, steps>>

\* The envelope of lines 78-84; its Message names the fact.
FactUnavailableEnvelope(fact) ==
    [Code |-> "FACT_UNAVAILABLE", Message |-> fact, HttpStatus |-> 503]

\* Faulty variant of FactUnavailable: the factError's outcome is not used.
FactUnavailableAlwaysSystemError(fact, outcome) ==
    Response("system_error", <<FactUnavailableEnvelope(fact)>>, << >>, << >>, << >>, FALSE)

\* The response Evaluate builds from a *factError (lines 75-85).
FactUnavailable(fact, outcome) ==
    Response(outcome, <<FactUnavailableEnvelope(fact)>>, << >>, << >>, << >>, FALSE)

\* Faulty variant of Collect: a fatal failure is recorded but the loop goes on.
CollectKeepsGoing ==
    /\ pc = "collect"
    /\ ch # << >>
    /\ LET r == Head(ch) IN
       /\ ch' = Tail(ch)
       /\ IF r.err
          THEN IF r.def.OnMissing = "skip"
               THEN /\ skipped' = skipped \cup {r.name}
                    /\ UNCHANGED <<resp, facts>>
               ELSE /\ resp' = FactUnavailable(r.name, IF r.def.OnMissing = "deny"
                                                       THEN "denied" ELSE "system_error")
                    /\ UNCHANGED <<facts, skipped>>
          ELSE /\ facts' = FactSetSet(facts, r.name, r.val)
               /\ UNCHANGED <<resp, skipped>>
    /\ UNCHANGED <<hostVars, engineVars, mu, pc, req, cContract, cEtag, todo, running,
                   getCalls, verdicts, final, execCalls, steps>>

\* One iteration of `for r := range ch` (lines 207-220).
Collect ==
    /\ pc = "collect"
    /\ ch # << >>
    /\ LET r == Head(ch) IN
       /\ ch' = Tail(ch)
       /\ IF r.err
          THEN IF r.def.OnMissing = "deny"
               THEN /\ resp' = FactUnavailable(r.name, "denied")
                    /\ pc' = "done"
                    /\ UNCHANGED <<facts, skipped>>
               ELSE IF r.def.OnMissing = "skip"
               THEN /\ skipped' = skipped \cup {r.name}
                    /\ UNCHANGED <<resp, pc, facts>>
               ELSE /\ resp' = FactUnavailable(r.name, "system_error")
                    /\ pc' = "done"
                    /\ UNCHANGED <<facts, skipped>>
          ELSE /\ facts' = FactSetSet(facts, r.name, r.val)
               /\ UNCHANGED <<resp, pc, skipped>>
    /\ UNCHANGED <<hostVars, engineVars, mu, req, cContract, cEtag, todo, running, getCalls,
                   verdicts, final, execCalls, steps>>

\* Faulty variant of GatherReturn: the loop ends on an empty channel without
\* waiting for the fetches still running.
GatherReturnWithoutWait ==
    /\ pc = "collect"
    /\ ch = << >>
    /\ pc' = "derive"
    /\ steps' = steps \cup {"gather"}
    /\ UNCHANGED <<hostVars, engineVars, mu, req, cContract, cEtag, gatherVars, verdicts,
                   final, resp, execCalls>>

\* wg.Wait() returned and the channel was closed and drained: gatherFacts
\* returns (facts, nil).
GatherReturn ==
    /\ pc = "collect"
    /\ ch = << >>
    /\ running = {}
    /\ pc' = "derive"
    /\ steps' = steps \cup {"gather"}
    /\ UNCHANGED <<hostVars, engineVars, mu, req, cContract, cEtag, gatherVars, verdicts, final, resp,
                   execCalls>>

\* Faulty variant of Derive: the error of deriveFacts is dropped.
DeriveIgnoringError ==
    /\ pc = "derive"
    /\ \E iter \in IterOrders(DOMAIN ContractAt(cContract).DerivedFacts) :
         LET r == deriveFacts(ContractAt(cContract), facts, iter) IN
         /\ facts' = r.facts
         /\ pc' = "rules"
         /\ steps' = IF r.err THEN steps ELSE steps \cup {"derive"}
         /\ UNCHANGED resp
    /\ UNCHANGED <<hostVars, skipped, engineVars, mu, req, cContract, cEtag, todo, running, ch, getCalls,
                   verdicts, final, execCalls>>

\* Step 2 (lines 90-93).
Derive ==
    /\ pc = "derive"
    /\ \E iter \in IterOrders(DOMAIN ContractAt(cContract).DerivedFacts) :
         LET r == deriveFacts(ContractAt(cContract), facts, iter) IN
         IF r.err
         THEN /\ resp' = ErrorReturn("derive facts")
              /\ pc' = "done"
              /\ UNCHANGED <<facts, steps>>
         ELSE /\ facts' = r.facts
              /\ pc' = "rules"
              /\ steps' = steps \cup {"derive"}
              /\ UNCHANGED resp
    /\ UNCHANGED <<hostVars, skipped, engineVars, mu, req, cContract, cEtag, todo, running, ch, getCalls,
                   verdicts, final, execCalls>>

\* Faulty variant of EvaluateRules: reads e.contract again instead of the local.
EvaluateRulesOnEngineContract ==
    /\ pc = "rules"
    /\ verdicts' = evaluateRules(ContractAt(contract), req.Operation, facts)
    /\ pc' = "resolve"
    /\ steps' = steps \cup {"rules"}
    /\ UNCHANGED <<hostVars, engineVars, mu, req, cContract, cEtag, gatherVars, final, resp,
                   execCalls>>

\* Step 4 (line 99).
EvaluateRules ==
    /\ pc = "rules"
    /\ verdicts' = evaluateRules(ContractAt(cContract), req.Operation, facts)
    /\ pc' = "resolve"
    /\ steps' = steps \cup {"rules"}
    /\ UNCHANGED <<hostVars, engineVars, mu, req, cContract, cEtag, gatherVars, final, resp,
                   execCalls>>

\* Step 5, line 102: final := resolveVerdicts(verdicts).
ResolveVerdicts ==
    /\ pc = "resolve"
    /\ final' = resolveVerdicts(verdicts)
    /\ pc' = "apply"
    /\ UNCHANGED <<hostVars, engineVars, mu, req, cContract, cEtag, gatherVars, verdicts, resp,
                   execCalls, steps>>

\* Faulty variant of applyVerdict: the deny test comes before the dry-run test.
applyVerdictDenyFirst(r, vs, fin, fs) ==
    IF Len(fin) > 0 /\ fin[1].Type = "deny"
    THEN Response("denied", fin[1].Error, vs, << >>, << >>, FALSE)
    ELSE IF r.DryRun
    THEN Response(dryRunOutcome(fin), << >>, vs, << >>, <<Snapshot(fs)>>, TRUE)
    ELSE IF Len(fin) > 0 /\ fin[1].Type = "escalate"
    THEN Response("escalated", << >>, vs, << >>, << >>, FALSE)
    ELSE NoResponse

\* Faulty variant of applyVerdict: the escalate branch is missing.
applyVerdictNoEscalate(r, vs, fin, fs) ==
    IF r.DryRun
    THEN Response(dryRunOutcome(fin), << >>, vs, << >>, <<Snapshot(fs)>>, TRUE)
    ELSE IF Len(fin) > 0 /\ fin[1].Type = "deny"
    THEN Response("denied", fin[1].Error, vs, << >>, << >>, FALSE)
    ELSE NoResponse

\* Faulty variant of applyVerdict: the denial carries no verdicts.
applyVerdictDenyBare(r, vs, fin, fs) ==
    IF r.DryRun
    THEN Response(dryRunOutcome(fin), << >>, vs, << >>, <<Snapshot(fs)>>, TRUE)
    ELSE IF Len(fin) > 0 /\ fin[1].Type = "deny"
    THEN Response("denied", fin[1].Error, << >>, << >>, << >>, FALSE)
    ELSE IF Len(fin) > 0 /\ fin[1].Type = "escalate"
    THEN Response("escalated", << >>, vs, << >>, << >>, FALSE)
    ELSE NoResponse

\* Step 5 (lines 104-126): the response Evaluate returns before Execute, or
\* NoResponse when it goes on to step 6.
applyVerdict(r, vs, fin, fs) ==
    IF r.DryRun
    THEN Response(dryRunOutcome(fin), << >>, vs, << >>, <<Snapshot(fs)>>, TRUE)
    ELSE IF Len(fin) > 0 /\ fin[1].Type = "deny"
    THEN Response("denied", fin[1].Error, vs, << >>, << >>, FALSE)
    ELSE IF Len(fin) > 0 /\ fin[1].Type = "escalate"
    THEN Response("escalated", << >>, vs, << >>, << >>, FALSE)
    ELSE NoResponse

ApplyVerdict ==
    /\ pc = "apply"
    /\ LET r == applyVerdict(req, verdicts, final, facts) IN
       IF r # NoResponse
       THEN resp' = r /\ pc' = "done"
       ELSE pc' = "execute" /\ UNCHANGED resp
    /\ UNCHANGED <<hostVars, engineVars, mu, req, cContract, cEtag, gatherVars, verdicts, final,
                   execCalls, steps>>

\* What PortRegistry.Execute returns on success (InvoiceRepo.Execute's map).
ExecuteOutput == MapV([status |-> Str("paid")])

\* Faulty variant of executeResponse: the verdicts are not attached.
executeResponseNoFlags(vs, failed) ==
    IF failed THEN SystemError("EXECUTION_FAILED", 500)
    ELSE Response("executed", << >>, << >>, <<ExecuteOutput>>, << >>, FALSE)

\* Faulty variant of executeResponse: the error of Execute is dropped.
executeResponseIgnoresError(vs, failed) ==
    Response("executed", << >>, vs, <<ExecuteOutput>>, << >>, FALSE)

\* Lines 130-152: the response after Execute returned (result, failed).
executeResponse(vs, failed) ==
    IF failed THEN SystemError("EXECUTION_FAILED", 500)
    ELSE Response("executed", << >>, vs, <<ExecuteOutput>>, << >>, FALSE)

\* Step 6 (line 129).
Execute ==
    /\ pc = "execute"
    /\ execCalls' = execCalls + 1
    /\ \E failed \in BOOLEAN :
         /\ resp' = executeResponse(verdicts, failed)
         /\ execResult' = IF failed THEN "error" ELSE "ok"
         /\ invoiceStatus' = IF ~failed /\ req.Operation = "pay"
                              THEN "paid" ELSE invoiceStatus
    /\ pc' = "done"
    /\ UNCHANGED <<ctxDone, logs, cond, condValue, auxVars, engineVars, mu, req, cContract,
                   cEtag, gatherVars, verdicts, final, steps>>

Next ==
    \/ LoadLock \/ LoadSetContract \/ LoadSetETag \/ LoadUnlock
    \/ ETagRLock \/ ETagReturn
    \/ EvalRLock \/ EvalReadContract \/ EvalReadETag \/ EvalRUnlock \/ EvalCheck
    \/ GatherIter \/ PortGet \/ Collect \/ GatherReturn
    \/ Derive \/ EvaluateRules \/ ResolveVerdicts \/ ApplyVerdict \/ Execute

Spec == Init /\ [][Next]_vars

(* ------------------------------------------------------------------ *)
(* resolveVerdicts on its own: every list of up to MaxVerdicts        *)
(* verdicts that evaluateRules can build.                             *)
(* ------------------------------------------------------------------ *)
MaxVerdicts == 3

VerdictDefs ==
    {Deny("ACCOUNT_CLOSED", 422), Deny("TOO_LARGE", 402), Escalate("review"),
     Escalate("fraud"), Require("confirm"), Require("otp"), Flag("NOTICE"), Flag("AUDIT")}

VerdictPool == {ruleVerdict(d)[1] : d \in VerdictDefs}

VerdictLists == UNION {[1..n -> VerdictPool] : n \in 0..MaxVerdicts}

InitResolve ==
    /\ verdicts \in VerdictLists
    /\ final = << >>
    /\ pc = "resolve"
    /\ contract = NoContract
    /\ contractETag = ""
    /\ mu = [writer |-> FALSE, readers |-> 0]
    /\ lpc = "idle"
    /\ larg = << >>
    /\ loads = 0
    /\ installed = {}
    /\ epc = "idle"
    /\ etagSeen = ""
    /\ req = NoRequest
    /\ cContract = NoContract
    /\ cEtag = ""
    /\ todo = {}
    /\ running = {}
    /\ ch = << >>
    /\ facts = NewFactSet
    /\ resp = NoResponse
    /\ getCalls = 0
    /\ execCalls = 0
    /\ steps = {}
    /\ skipped = {}
    /\ ctxDone = FALSE
    /\ logs = << >>
    /\ invoiceStatus = "approved"
    /\ cond = NoCondition
    /\ condValue = << >>
    /\ execResult = "none"
    /\ call = NoCall
    /\ ret = << >>
    /\ inmem = SeededPorts
    /\ fset = NewLockedFactSet
    /\ workers = << >>
    /\ registry = MainRegistry
    /\ heap = << >>

NextResolve == ResolveVerdicts

SpecResolve == InitResolve /\ [][NextResolve]_vars

(* ------------------------------------------------------------------ *)
(* One Evaluate call on an engine whose contract is loaded, with the  *)
(* invoice of the request in one of the seeded states.                *)
(* ------------------------------------------------------------------ *)
LoadedPairs == Loads \cup {<<"K4", "e4">>}

\* NewInvoiceRepo's seed data: inv_001 and inv_003 approved, inv_002 draft.
SeededStatuses == {"approved", "draft"}

InitLoaded ==
    /\ \E l \in LoadedPairs :
         /\ contract = l[1]
         /\ contractETag = l[2]
         /\ larg = l
         /\ installed = {l}
    /\ mu = [writer |-> FALSE, readers |-> 0]
    /\ lpc = "idle"
    /\ loads = 1
    /\ epc = "idle"
    /\ etagSeen = ""
    /\ pc = "idle"
    /\ req = NoRequest
    /\ cContract = NoContract
    /\ cEtag = ""
    /\ todo = {}
    /\ running = {}
    /\ ch = << >>
    /\ facts = NewFactSet
    /\ verdicts = << >>
    /\ final = << >>
    /\ resp = NoResponse
    /\ getCalls = 0
    /\ execCalls = 0
    /\ steps = {}
    /\ skipped = {}
    /\ ctxDone = FALSE
    /\ logs = << >>
    /\ invoiceStatus \in SeededStatuses
    /\ cond = NoCondition
    /\ condValue = << >>
    /\ execResult = "none"
    /\ call = NoCall
    /\ ret = << >>
    /\ inmem = SeededPorts
    /\ fset = NewLockedFactSet
    /\ workers = << >>
    /\ registry = MainRegistry
    /\ heap = << >>

NextEvaluate ==
    \/ EvalRLock \/ EvalReadContract \/ EvalReadETag \/ EvalRUnlock \/ EvalCheck
    \/ GatherIter \/ PortGet \/ Collect \/ GatherReturn
    \/ Derive \/ EvaluateRules \/ ResolveVerdicts \/ ApplyVerdict \/ Execute

SpecEvaluate == InitLoaded /\ [][NextEvaluate]_vars

(* ------------------------------------------------------------------ *)
(* Evaluate called with a context its caller may cancel.              *)
(* ------------------------------------------------------------------ *)
\* The caller cancels ctx while Evaluate is running and has not entered Execute.
CancelCtx ==
    /\ pc \notin {"idle", "execute", "done", "replied"}
    /\ ~ctxDone
    /\ ctxDone' = TRUE
    /\ UNCHANGED <<engineVars, mu, evalVars, logs, invoiceStatus, cond, condValue,
                   execResult, auxVars>>

NextCtx ==
    \/ EvalRLock \/ EvalReadContract \/ EvalReadETag \/ EvalRUnlock \/ EvalCheck
    \/ GatherIter \/ PortGet \/ Collect \/ GatherReturn
    \/ Derive \/ EvaluateRules \/ ResolveVerdicts \/ ApplyVerdict \/ Execute
    \/ CancelCtx

SpecCtx == InitLoaded /\ [][NextCtx]_vars

(* ------------------------------------------------------------------ *)
(* The POST /execute handler of the example executor.                 *)
(* ------------------------------------------------------------------ *)
\* log.Printf("eval error: %v", err)
EvalErrorLine(msg) == [line |-> "eval error", err |-> msg]

\* log.Printf("encode error: %v", err)
EncodeErrorLine == [line |-> "encode error"]

\* log.Printf("op=%s outcome=%s dry_run=%v", ...)
OutcomeLine(r, rs) ==
    [line |-> "outcome", op |-> r.Operation, outcome |-> rs.Outcome, dry_run |-> r.DryRun]

\* The body does not decode: 400, and Evaluate is not called.
HandlerBadBody ==
    /\ pc = "idle"
    /\ pc' = "replied"
    /\ UNCHANGED <<hostVars, engineVars, mu, req, cContract, cEtag, gatherVars, verdicts,
                   final, resp, execCalls, steps>>

\* Evaluate returned: the 500 for an error, else the encoded response and the
\* outcome line.
HandlerReply ==
    /\ pc = "done"
    /\ IF resp.kind = "error"
       THEN logs' = Append(logs, EvalErrorLine(resp.err))
       ELSE \E encodeFailed \in BOOLEAN :
              logs' = (IF encodeFailed THEN Append(logs, EncodeErrorLine) ELSE logs)
                      \o <<OutcomeLine(req, resp)>>
    /\ pc' = "replied"
    /\ UNCHANGED <<engineVars, mu, req, cContract, cEtag, gatherVars, verdicts, final, resp,
                   execCalls, steps, ctxDone, invoiceStatus, cond, condValue, execResult,
                   auxVars>>

NextHandler ==
    \/ HandlerBadBody
    \/ EvalRLock \/ EvalReadContract \/ EvalReadETag \/ EvalRUnlock \/ EvalCheck
    \/ GatherIter \/ PortGet \/ Collect \/ GatherReturn
    \/ Derive \/ EvaluateRules \/ ResolveVerdicts \/ ApplyVerdict \/ Execute
    \/ HandlerReply

SpecHandler == InitLoaded /\ [][NextHandler]_vars

(* ------------------------------------------------------------------ *)
(* evalCondition on its own: one leaf condition against one FactSet.  *)
(* ------------------------------------------------------------------ *)
\* The longest `in` list of a leaf.
MaxIn == 2

F_currency == <<"payment", "amount", "currency">>

LeafFacts == {F_status, F_amountValue, F_currency}

Literals == {Str("closed"), Str("<nil>"), Str(""), Num(0), Num(3), Bool(TRUE), Bool(FALSE)}

InLists == UNION {[1..n -> Literals] : n \in 1..MaxIn}

\* Leaves with exactly one comparison operator.
LeafConditions ==
    {Leaf(f, v, NilV, NilV) : f \in LeafFacts, v \in Literals}
    \cup {Leaf(f, NilV, v, NilV) : f \in LeafFacts, v \in Literals}
    \cup {Leaf(f, NilV, NilV, v) : f \in LeafFacts, v \in Literals}
    \cup {Condition(<< >>, << >>, << >>, f, NilV, NilV, NilV, l) :
             f \in LeafFacts, l \in InLists}

CondFactSets ==
    {NewFactSet,
     FactSetSet(NewFactSet, F_status, Str("closed")),
     FactSetSet(NewFactSet, F_amount, MapV([value |-> Num(3)])),
     FactSetSet(FactSetSet(NewFactSet, F_status, Str("active")),
                F_amount, MapV([value |-> Num(0)]))}

InitCond ==
    /\ cond \in LeafConditions
    /\ facts \in CondFactSets
    /\ condValue = << >>
    /\ pc = "cond"
    /\ contract = NoContract
    /\ contractETag = ""
    /\ mu = [writer |-> FALSE, readers |-> 0]
    /\ lpc = "idle"
    /\ larg = << >>
    /\ loads = 0
    /\ installed = {}
    /\ epc = "idle"
    /\ etagSeen = ""
    /\ req = NoRequest
    /\ cContract = NoContract
    /\ cEtag = ""
    /\ todo = {}
    /\ running = {}
    /\ ch = << >>
    /\ verdicts = << >>
    /\ final = << >>
    /\ resp = NoResponse
    /\ getCalls = 0
    /\ execCalls = 0
    /\ steps = {}
    /\ skipped = {}
    /\ ctxDone = FALSE
    /\ logs = << >>
    /\ invoiceStatus = "approved"
    /\ execResult = "none"
    /\ call = NoCall
    /\ ret = << >>
    /\ inmem = SeededPorts
    /\ fset = NewLockedFactSet
    /\ workers = << >>
    /\ registry = MainRegistry
    /\ heap = << >>

\* The call evalCondition(cond, facts).
EvalCondition ==
    /\ pc = "cond"
    /\ condValue' = <<evalCondition(cond, facts)>>
    /\ pc' = "cond_done"
    /\ UNCHANGED <<engineVars, mu, req, cContract, cEtag, gatherVars, verdicts, final, resp,
                   execCalls, steps, ctxDone, logs, invoiceStatus, cond, execResult,
                   auxVars>>

NextCond == EvalCondition

SpecCond == InitCond /\ [][NextCond]_vars

(* ------------------------------------------------------------------ *)
(* deriveFacts on its own: derived-fact graphs over three names and   *)
(* one base fact, acyclic and cyclic.                                 *)
(* ------------------------------------------------------------------ *)
F_x == <<"x">>

DerivedNames == {<<"a">>, <<"b">>, <<"c">>}

FactRef(f) == DerivationArg(f, "", NilV)

DerivationPool ==
    {Derivation("not", <<FactRef(f)>>) : f \in DerivedNames \cup {F_x}}
    \cup {Derivation("and", <<FactRef(f), FactRef(g)>>) :
             f \in DerivedNames \cup {F_x}, g \in DerivedNames \cup {F_x}}

DerivedGraphs == UNION {[S -> DerivationPool] : S \in (SUBSET DerivedNames) \ {{}}}

BaseFactSets == {FactSetSet(NewFactSet, F_x, Bool(b)) : b \in BOOLEAN}

InitDerive ==
    /\ call \in [fn : {"deriveFacts"}, dfs : DerivedGraphs, facts : BaseFactSets]
    /\ ret = << >>
    /\ pc = "call"
    /\ contract = NoContract
    /\ contractETag = ""
    /\ mu = [writer |-> FALSE, readers |-> 0]
    /\ lpc = "idle"
    /\ larg = << >>
    /\ loads = 0
    /\ installed = {}
    /\ epc = "idle"
    /\ etagSeen = ""
    /\ req = NoRequest
    /\ cContract = NoContract
    /\ cEtag = ""
    /\ todo = {}
    /\ running = {}
    /\ ch = << >>
    /\ facts = NewFactSet
    /\ verdicts = << >>
    /\ final = << >>
    /\ resp = NoResponse
    /\ getCalls = 0
    /\ execCalls = 0
    /\ steps = {}
    /\ skipped = {}
    /\ ctxDone = FALSE
    /\ logs = << >>
    /\ invoiceStatus = "approved"
    /\ cond = NoCondition
    /\ condValue = << >>
    /\ execResult = "none"
    /\ inmem = SeededPorts
    /\ fset = NewLockedFactSet
    /\ workers = << >>
    /\ registry = MainRegistry
    /\ heap = << >>

\* The call deriveFacts(c, facts), for every order the range over the map of
\* derived facts may take; the order topoSort returned is kept with the result.
DeriveFacts ==
    /\ pc = "call"
    /\ call.fn = "deriveFacts"
    /\ \E iter \in IterOrders(DOMAIN call.dfs) :
         LET r == deriveFacts([DerivedFacts |-> call.dfs], call.facts, iter) IN
         ret' = <<[order |-> topoSort(call.dfs, iter), facts |-> r.facts, err |-> r.err]>>
    /\ pc' = "called"
    /\ UNCHANGED <<engineVars, mu, req, cContract, cEtag, gatherVars, verdicts, final, resp,
                   execCalls, steps, ctxDone, logs, invoiceStatus, cond, condValue,
                   execResult, call, inmem, fset, workers, registry, heap>>

NextDerive == DeriveFacts

SpecDerive == InitDerive /\ [][NextDerive]_vars

(* ------------------------------------------------------------------ *)
(* evaluateRules on its own: one contract whose rule list and         *)
(* constrained_by lists are taken in every order.                     *)
(* ------------------------------------------------------------------ *)
KR == [Entities |-> [invoice |-> InvoiceEntity],
       Facts |-> (F_amount :> FactDef("input", TRUE, "")
                  @@ F_status :> FactDef("port:customerRepo", TRUE, "deny")),
       DerivedFacts |-> (D_large :> LargeDerivation),
       Rules |-> <<R_closed, R_review, R_confirm, R_notice, R_large>>,
       Operations |-> [pay |-> OperationDef(<<"closed", "large", "review", "notice">>, << >>),
                       quote |-> OperationDef(<<"confirm", "notice">>, << >>)]]

\* Every reordering of a list without repeated elements.
Reorderings(seq) ==
    {p \in [1..Len(seq) -> {seq[i] : i \in 1..Len(seq)}] :
        \A i, j \in 1..Len(seq) : i # j => p[i] # p[j]}

\* The FactSets step 2 hands to rule evaluation for KR.
RuleFactSets ==
    {deriveFacts(KR, FactSetSet(FactSetSet(NewFactSet, F_amount, MapV([value |-> Num(a)])),
                                F_status, st),
                 <<D_large>>).facts : a \in Amounts, st \in PortValues(F_status)}

RuleCalls ==
    UNION {[fn : {"evaluateRules"}, op : {o}, rules : Reorderings(KR.Rules),
            by : Reorderings(KR.Operations[o].ConstrainedBy), facts : RuleFactSets] :
           o \in DOMAIN KR.Operations}

\* The contract of a call: KR with the call's rule order and constrained_by order.
CallContract(cl) ==
    [KR EXCEPT !.Rules = cl.rules, !.Operations[cl.op].ConstrainedBy = cl.by]

\* How an invocation with these verdicts ends: the outcome of the response
\* Evaluate returns at step 5, or "execute" when it goes on to step 6.
OutcomeOf(op, dryRun, vs, fs) ==
    LET r == applyVerdict([NoRequest EXCEPT !.Operation = op, !.DryRun = dryRun],
                          vs, resolveVerdicts(vs), fs)
    IN  IF r = NoResponse THEN "execute" ELSE r.Outcome

InitRules ==
    /\ call \in RuleCalls
    /\ ret = << >>
    /\ pc = "call"
    /\ contract = NoContract
    /\ contractETag = ""
    /\ mu = [writer |-> FALSE, readers |-> 0]
    /\ lpc = "idle"
    /\ larg = << >>
    /\ loads = 0
    /\ installed = {}
    /\ epc = "idle"
    /\ etagSeen = ""
    /\ req = NoRequest
    /\ cContract = NoContract
    /\ cEtag = ""
    /\ todo = {}
    /\ running = {}
    /\ ch = << >>
    /\ facts = NewFactSet
    /\ verdicts = << >>
    /\ final = << >>
    /\ resp = NoResponse
    /\ getCalls = 0
    /\ execCalls = 0
    /\ steps = {}
    /\ skipped = {}
    /\ ctxDone = FALSE
    /\ logs = << >>
    /\ invoiceStatus = "approved"
    /\ cond = NoCondition
    /\ condValue = << >>
    /\ execResult = "none"
    /\ inmem = SeededPorts
    /\ fset = NewLockedFactSet
    /\ workers = << >>
    /\ registry = MainRegistry
    /\ heap = << >>

\* The call evaluateRules(c, operation, facts), with what steps 5 makes of it
\* for a live and for a dry-run request.
EvaluateRulesCall ==
    /\ pc = "call"
    /\ call.fn = "evaluateRules"
    /\ LET vs == evaluateRules(CallContract(call), call.op, call.facts) IN
       ret' = <<[verdicts |-> vs, final |-> resolveVerdicts(vs),
                 live |-> OutcomeOf(call.op, FALSE, vs, call.facts),
                 dry |-> OutcomeOf(call.op, TRUE, vs, call.facts),
                 response |-> applyVerdict([NoRequest EXCEPT !.Operation = call.op],
                                           vs, resolveVerdicts(vs), call.facts)]>>
    /\ pc' = "called"
    /\ UNCHANGED <<engineVars, mu, req, cContract, cEtag, gatherVars, verdicts, final, resp,
                   execCalls, steps, ctxDone, logs, invoiceStatus, cond, condValue,
                   execResult, call, inmem, fset, workers, registry, heap>>

NextRules == EvaluateRulesCall

SpecRules == InitRules /\ [][NextRules]_vars

(* ------------------------------------------------------------------ *)
(* evalCondition on condition trees: all, any and not nodes over two  *)
(* leaves, two levels deep.                                           *)
(* ------------------------------------------------------------------ *)
MaxKids == 2

\* A node of a condition tree as a contract writes it: one combinator with its
\* children, or a leaf.
TreeNode(kind, kids, leaf) == [kind |-> kind, kids |-> kids, leaf |-> leaf]

TreeLeaves ==
    {TreeNode("leaf", << >>, Leaf(F_status, Str("active"), NilV, NilV)),
     TreeNode("leaf", << >>, Leaf(F_amountValue, NilV, Num(2), NilV))}

KidLists(S) == UNION {[1..n -> S] : n \in 0..MaxKids}

\* The trees one level above the trees of S.
TreesOver(S) ==
    S \cup {TreeNode("not", <<t>>, NoCondition) : t \in S}
      \cup {TreeNode(k, ks, NoCondition) : k \in {"all", "any"}, ks \in KidLists(S)}

ConditionTrees == TreesOver(TreesOver(TreeLeaves))

\* The Condition value of a tree: the node's children in the field of its
\* combinator, every other field zero.
RECURSIVE conditionOf(_)
conditionOf(t) ==
    CASE t.kind = "leaf" -> t.leaf
      [] t.kind = "not" ->
            Condition(<< >>, << >>, <<conditionOf(t.kids[1])>>, NoFact, NilV, NilV, NilV, << >>)
      [] t.kind = "all" ->
            Condition([i \in 1..Len(t.kids) |-> conditionOf(t.kids[i])], << >>, << >>,
                      NoFact, NilV, NilV, NilV, << >>)
      [] t.kind = "any" ->
            Condition(<< >>, [i \in 1..Len(t.kids) |-> conditionOf(t.kids[i])], << >>,
                      NoFact, NilV, NilV, NilV, << >>)

TreeFactSets ==
    {FactSetSet(FactSetSet(NewFactSet, F_status, Str("active")),
                F_amount, MapV([value |-> Num(1)])),
     FactSetSet(FactSetSet(NewFactSet, F_status, Str("closed")),
                F_amount, MapV([value |-> Num(3)]))}

InitTree ==
    /\ call \in [fn : {"evalCondition"}, tree : ConditionTrees]
    /\ cond = conditionOf(call.tree)
    /\ facts \in TreeFactSets
    /\ condValue = << >>
    /\ pc = "cond"
    /\ contract = NoContract
    /\ contractETag = ""
    /\ mu = [writer |-> FALSE, readers |-> 0]
    /\ lpc = "idle"
    /\ larg = << >>
    /\ loads = 0
    /\ installed = {}
    /\ epc = "idle"
    /\ etagSeen = ""
    /\ req = NoRequest
    /\ cContract = NoContract
    /\ cEtag = ""
    /\ todo = {}
    /\ running = {}
    /\ ch = << >>
    /\ verdicts = << >>
    /\ final = << >>
    /\ resp = NoResponse
    /\ getCalls = 0
    /\ execCalls = 0
    /\ steps = {}
    /\ skipped = {}
    /\ ctxDone = FALSE
    /\ logs = << >>
    /\ invoiceStatus = "approved"
    /\ execResult = "none"
    /\ ret = << >>
    /\ inmem = SeededPorts
    /\ fset = NewLockedFactSet
    /\ workers = << >>
    /\ registry = MainRegistry
    /\ heap = << >>

NextTree == EvalCondition

SpecTree == InitTree /\ [][NextTree]_vars

(* ------------------------------------------------------------------ *)
(* The billing contract served by the in-memory ports of main.go.     *)
(* ------------------------------------------------------------------ *)
\* `id, _ := input[name].(string)`
inputString(input, name) ==
    IF name \in DOMAIN input /\ input[name].t = "str" THEN input[name].s ELSE ""

PortError == [val |-> NilV, err |-> TRUE]

CustomerRepoGet(ports, fact, input) ==
    LET id == inputString(input, F_customerId) IN
    IF id = "" \/ id \notin DOMAIN ports.customers THEN PortError
    ELSE IF fact = F_status THEN [val |-> Str(ports.customers[id]), err |-> FALSE]
    ELSE PortError

InvoiceRepoGet(ports, fact, input) ==
    LET id == inputString(input, F_invoiceId) IN
    IF id = "" \/ id \notin DOMAIN ports.invoices THEN PortError
    ELSE IF fact = F_balance
    THEN [val |-> MapV([value |-> Num(ports.invoices[id].balance), currency |-> Str("USD")]),
          err |-> FALSE]
    ELSE IF fact = F_invoiceStatus
    THEN [val |-> Str(ports.invoices[id].status), err |-> FALSE]
    ELSE PortError

\* Faulty variant of PaymentProcessorGet: the status SetStatus stored is not read.
PaymentProcessorGetSeed(ports, fact, input) ==
    IF fact = F_processor THEN [val |-> Str("up"), err |-> FALSE] ELSE PortError

PaymentProcessorGet(ports, fact, input) ==
    IF fact = F_processor THEN [val |-> Str(ports.processor), err |-> FALSE] ELSE PortError

\* Registry.Get over the three clients main.go registers.
RegistryGet(ports, source, fact, input) ==
    CASE source = "port:customerRepo" -> CustomerRepoGet(ports, fact, input)
      [] source = "port:invoiceRepo" -> InvoiceRepoGet(ports, fact, input)
      [] source = "port:paymentProcessor" -> PaymentProcessorGet(ports, fact, input)
      [] OTHER -> PortError

\* InvoiceRepo.Execute: the repository afterwards, and whether it returned an error.
InvoiceRepoExecute(ports, operation, input) ==
    LET id == inputString(input, F_invoiceId) IN
    IF id = "" \/ id \notin DOMAIN ports.invoices THEN [ports |-> ports, failed |-> TRUE]
    ELSE IF operation = "ProcessPayment"
    THEN IF F_amount \in DOMAIN input /\ input[F_amount].t = "map"
         THEN [ports |-> [ports EXCEPT !.invoices[id] = [status |-> "paid", balance |-> 0]],
               failed |-> FALSE]
         ELSE [ports |-> ports, failed |-> TRUE]
    ELSE IF operation = "GetInvoice" THEN [ports |-> ports, failed |-> FALSE]
    ELSE [ports |-> ports, failed |-> TRUE]

\* The repositories as seeded, or after inv_001 has been paid.
BillingPorts ==
    {SeededPorts,
     [SeededPorts EXCEPT !.invoices.inv_001 = [status |-> "paid", balance |-> 0]]}

CustomerIds == {"cust_123", "cust_456", "cust_999"}

InvoiceIds == {"inv_001", "inv_003", "inv_999"}

PaymentAmounts == {1000, 20000}

\* The inputs a client may send: each of customer.id, invoice.id and
\* payment.amount present or not.
BillingRequestInputs ==
    UNION {{[k \in D |-> CASE k = F_customerId -> Str(cu)
                            [] k = F_invoiceId -> Str(iv)
                            [] k = F_amount -> MapV([value |-> Num(am), currency |-> Str("USD")])] :
               cu \in CustomerIds, iv \in InvoiceIds, am \in PaymentAmounts} :
           D \in SUBSET {F_customerId, F_invoiceId, F_amount}}

BillingRequests ==
    [Operation : {"ProcessPayment", "GetInvoice"}, Input : BillingRequestInputs,
     DryRun : {FALSE}, ContractETag : {""}]

InitBilling ==
    /\ contract = "billing"
    /\ contractETag = "b1"
    /\ larg = <<"billing", "b1">>
    /\ installed = {<<"billing", "b1">>}
    /\ inmem \in BillingPorts
    /\ mu = [writer |-> FALSE, readers |-> 0]
    /\ lpc = "idle"
    /\ loads = 1
    /\ epc = "idle"
    /\ etagSeen = ""
    /\ pc = "idle"
    /\ req = NoRequest
    /\ cContract = NoContract
    /\ cEtag = ""
    /\ todo = {}
    /\ running = {}
    /\ ch = << >>
    /\ facts = NewFactSet
    /\ verdicts = << >>
    /\ final = << >>
    /\ resp = NoResponse
    /\ getCalls = 0
    /\ execCalls = 0
    /\ steps = {}
    /\ skipped = {}
    /\ ctxDone = FALSE
    /\ logs = << >>
    /\ invoiceStatus = "approved"
    /\ cond = NoCondition
    /\ condValue = << >>
    /\ execResult = "none"
    /\ call = NoCall
    /\ ret = << >>
    /\ fset = NewLockedFactSet
    /\ workers = << >>
    /\ registry = MainRegistry
    /\ heap = << >>

\* PaymentProcessor.SetStatus("down").
SetStatusDown ==
    /\ inmem' = [inmem EXCEPT !.processor = "down"]
    /\ inmem' # inmem
    /\ UNCHANGED <<engineVars, mu, evalVars, ctxDone, logs, invoiceStatus, cond, condValue,
                   execResult, call, ret, fset, workers, registry, heap>>

\* A client posts a request; Evaluate takes the read lock.  `call` keeps what
\* the repositories held when the invocation began.
BillingRLock ==
    /\ pc = "idle"
    /\ CanRLock
    /\ \E r \in BillingRequests : req' = r
    /\ call' = [fn |-> "Evaluate", ports |-> inmem]
    /\ mu' = [mu EXCEPT !.readers = @ + 1]
    /\ pc' = "read_contract"
    /\ UNCHANGED <<engineVars, cContract, cEtag, gatherVars, verdicts, final, resp,
                   execCalls, steps, ctxDone, logs, invoiceStatus, cond, condValue,
                   execResult, ret, inmem, fset, workers, registry, heap>>

\* A fetch goroutine (lines 197-201) against the registered in-memory client.
BillingPortGet ==
    /\ \E name \in running :
         LET def == ContractAt(cContract).Facts[name]
             r == RegistryGet(inmem, def.Source, name, req.Input)
         IN /\ running' = running \ {name}
            /\ ch' = Append(ch, [name |-> name, val |-> r.val, err |-> r.err, def |-> def])
    /\ getCalls' = getCalls + 1
    /\ UNCHANGED <<hostVars, skipped, engineVars, mu, pc, req, cContract, cEtag, todo, facts,
                   verdicts, final, resp, execCalls, steps>>

\* Step 6 (line 129) against InvoiceRepo.Execute.
BillingExecute ==
    /\ pc = "execute"
    /\ execCalls' = execCalls + 1
    /\ LET r == InvoiceRepoExecute(inmem, req.Operation, req.Input) IN
         /\ resp' = executeResponse(verdicts, r.failed)
         /\ execResult' = IF r.failed THEN "error" ELSE "ok"
         /\ inmem' = r.ports
    /\ pc' = "done"
    /\ UNCHANGED <<engineVars, mu, req, cContract, cEtag, gatherVars, verdicts, final, steps,
                   ctxDone, logs, invoiceStatus, cond, condValue, call, ret, fset, workers, registry, heap>>

NextBilling ==
    \/ SetStatusDown
    \/ BillingRLock \/ EvalReadContract \/ EvalReadETag \/ EvalRUnlock \/ EvalCheck
    \/ GatherIter \/ BillingPortGet \/ Collect \/ GatherReturn
    \/ Derive \/ EvaluateRules \/ ResolveVerdicts \/ ApplyVerdict \/ BillingExecute

SpecBilling == InitBilling /\ [][NextBilling]_vars

(* ------------------------------------------------------------------ *)
(* One FactSet shared by goroutines that each Set and then Get a key  *)
(* of their own (TestFactSet_SetGet_concurrent).                      *)
(* ------------------------------------------------------------------ *)
MaxWriters == 3

Writers == 1..MaxWriters

\* Faulty variant of FactSetCanLock: Lock does not wait.
FactSetLockUnguarded(m) == TRUE

\* f.mu.Lock() can return: no writer and no reader holds the mutex.
FactSetCanLock(m) == ~m.writer /\ m.readers = 0

\* f.mu.RLock() can return: no writer holds the mutex.
FactSetCanRLock(m) == ~m.writer

\* A goroutine before `fs.Set(key, n)`: key fact.n is n here, the value Num(n).
NewWriter(n) == [pc |-> "set", key |-> n, val |-> Num(n), local |-> << >>, got |-> << >>]

InitFactSet ==
    /\ fset = NewLockedFactSet
    /\ workers = [w \in Writers |-> NewWriter(w)]
    /\ registry = MainRegistry
    /\ heap = << >>
    /\ call = NoCall
    /\ ret = << >>
    /\ pc = "idle"
    /\ contract = NoContract
    /\ contractETag = ""
    /\ mu = [writer |-> FALSE, readers |-> 0]
    /\ lpc = "idle"
    /\ larg = << >>
    /\ loads = 0
    /\ installed = {}
    /\ epc = "idle"
    /\ etagSeen = ""
    /\ req = NoRequest
    /\ cContract = NoContract
    /\ cEtag = ""
    /\ todo = {}
    /\ running = {}
    /\ ch = << >>
    /\ facts = NewFactSet
    /\ verdicts = << >>
    /\ final = << >>
    /\ resp = NoResponse
    /\ getCalls = 0
    /\ execCalls = 0
    /\ steps = {}
    /\ skipped = {}
    /\ ctxDone = FALSE
    /\ logs = << >>
    /\ invoiceStatus = "approved"
    /\ cond = NoCondition
    /\ condValue = << >>
    /\ execResult = "none"
    /\ inmem = SeededPorts

\* Set: f.mu.Lock()
SetLock ==
    \E w \in Writers :
        /\ workers[w].pc = "set"
        /\ FactSetCanLock(fset.mu)
        /\ fset' = [fset EXCEPT !.mu.writer = TRUE]
        /\ workers' = [workers EXCEPT ![w].pc = "set_load"]
        /\ UNCHANGED <<engineVars, mu, evalVars, ctxDone, logs, invoiceStatus, cond, condValue,
                       execResult, call, ret, inmem, registry, heap>>

\* Set: `f.facts[name] = val` reads the map's table ...
SetLoad ==
    \E w \in Writers :
        /\ workers[w].pc = "set_load"
        /\ workers' = [workers EXCEPT ![w].pc = "set_store", ![w].local = fset.facts]
        /\ UNCHANGED <<engineVars, mu, evalVars, ctxDone, logs, invoiceStatus, cond, condValue,
                       execResult, call, ret, inmem, fset, registry, heap>>

\* ... and writes it back with the entry added.
SetStore ==
    \E w \in Writers :
        /\ workers[w].pc = "set_store"
        /\ fset' = [fset EXCEPT !.facts = FactSetSet(workers[w].local, workers[w].key,
                                                     workers[w].val)]
        /\ workers' = [workers EXCEPT ![w].pc = "set_unlock"]
        /\ UNCHANGED <<engineVars, mu, evalVars, ctxDone, logs, invoiceStatus, cond, condValue,
                       execResult, call, ret, inmem, registry, heap>>

\* Set: the deferred f.mu.Unlock()
SetUnlock ==
    \E w \in Writers :
        /\ workers[w].pc = "set_unlock"
        /\ fset' = [fset EXCEPT !.mu.writer = FALSE]
        /\ workers' = [workers EXCEPT ![w].pc = "get"]
        /\ UNCHANGED <<engineVars, mu, evalVars, ctxDone, logs, invoiceStatus, cond, condValue,
                       execResult, call, ret, inmem, registry, heap>>

\* Get: f.mu.RLock()
GetRLock ==
    \E w \in Writers :
        /\ workers[w].pc = "get"
        /\ FactSetCanRLock(fset.mu)
        /\ fset' = [fset EXCEPT !.mu.readers = @ + 1]
        /\ workers' = [workers EXCEPT ![w].pc = "get_read"]
        /\ UNCHANGED <<engineVars, mu, evalVars, ctxDone, logs, invoiceStatus, cond, condValue,
                       execResult, call, ret, inmem, registry, heap>>

\* Get: `v, ok := f.facts[name]`
GetRead ==
    \E w \in Writers :
        /\ workers[w].pc = "get_read"
        /\ workers' = [workers EXCEPT
                         ![w].pc = "get_unlock",
                         ![w].got = IF workers[w].key \in DOMAIN fset.facts
                                    THEN <<fset.facts[workers[w].key]>> ELSE << >>]
        /\ UNCHANGED <<engineVars, mu, evalVars, ctxDone, logs, invoiceStatus, cond, condValue,
                       execResult, call, ret, inmem, fset, registry, heap>>

\* Get: the deferred f.mu.RUnlock(), and the goroutine's wg.Done()
GetRUnlock ==
    \E w \in Writers :
        /\ workers[w].pc = "get_unlock"
        /\ fset' = [fset EXCEPT !.mu.readers = @ - 1]
        /\ workers' = [workers EXCEPT ![w].pc = "done"]
        /\ UNCHANGED <<engineVars, mu, evalVars, ctxDone, logs, invoiceStatus, cond, condValue,
                       execResult, call, ret, inmem, registry, heap>>

NextFactSet ==
    \/ SetLock \/ SetLoad \/ SetStore \/ SetUnlock
    \/ GetRLock \/ GetRead \/ GetRUnlock

SpecFactSet == InitFactSet /\ [][NextFactSet]_vars

(* ------------------------------------------------------------------ *)
(* FactSet.Snapshot: a caller fills a FactSet, takes a snapshot and   *)
(* writes to the map it got back.                                     *)
(* ------------------------------------------------------------------ *)
\* The engine at rest: no contract, no invocation, no LoadContract or ETag call.
InitEngineIdle ==
    /\ contract = NoContract
    /\ contractETag = ""
    /\ mu = [writer |-> FALSE, readers |-> 0]
    /\ lpc = "idle"
    /\ larg = << >>
    /\ loads = 0
    /\ installed = {}
    /\ epc = "idle"
    /\ etagSeen = ""
    /\ req = NoRequest
    /\ cContract = NoContract
    /\ cEtag = ""
    /\ todo = {}
    /\ running = {}
    /\ ch = << >>
    /\ facts = NewFactSet
    /\ verdicts = << >>
    /\ final = << >>
    /\ resp = NoResponse
    /\ getCalls = 0
    /\ execCalls = 0
    /\ steps = {}
    /\ skipped = {}
    /\ ctxDone = FALSE
    /\ logs = << >>
    /\ invoiceStatus = "approved"
    /\ cond = NoCondition
    /\ condValue = << >>
    /\ execResult = "none"

MaxMutations == 2

SnapshotKeys == {<<"a">>, <<"x">>, <<"y">>}

SnapshotValues == {Num(1), Num(999), Str("hello"), MapV([value |-> Num(42)])}

\* Faulty variant of FactSetSnapshot: the FactSet's own map is returned.
FactSetSnapshotAlias(f) == [ref |-> "f.facts", m |-> << >>]

\* Snapshot(): a map is a reference, and `out` is a new one filled by the loop.
FactSetSnapshot(f) == [ref |-> "out", m |-> Snapshot(f.facts)]

\* The entries of the map a reference leads to.
mapAt(r, f) == IF r.ref = "f.facts" THEN f.facts ELSE r.m

InitSnapshot ==
    /\ InitEngineIdle
    /\ pc = "call"
    /\ fset = NewLockedFactSet
    /\ call = [fn |-> "Snapshot", at |-> << >>, writes |-> 0]
    /\ ret = << >>
    /\ inmem = SeededPorts
    /\ workers = << >>
    /\ registry = MainRegistry
    /\ heap = << >>

\* fs.Set(k, v) before the snapshot is taken.
SnapshotSet ==
    /\ pc = "call"
    /\ call.fn = "Snapshot"
    /\ \E k \in SnapshotKeys, v \in SnapshotValues :
         fset' = [fset EXCEPT !.facts = FactSetSet(fset.facts, k, v)]
    /\ UNCHANGED <<engineVars, mu, evalVars, ctxDone, logs, invoiceStatus, cond, condValue,
                   execResult, call, ret, inmem, workers, registry, heap>>

\* snap := fs.Snapshot(); `call.at` keeps what the FactSet held at the call.
SnapshotCall ==
    /\ pc = "call"
    /\ call.fn = "Snapshot"
    /\ ret' = <<FactSetSnapshot(fset)>>
    /\ call' = [call EXCEPT !.at = fset.facts]
    /\ pc' = "called"
    /\ UNCHANGED <<engineVars, mu, req, cContract, cEtag, gatherVars, verdicts, final, resp,
                   execCalls, steps, ctxDone, logs, invoiceStatus, cond, condValue,
                   execResult, inmem, fset, workers, registry, heap>>

\* snap[k] = v: the caller adds or replaces a top-level entry of the map it got.
SnapshotWrite ==
    /\ pc = "called"
    /\ call.fn = "Snapshot"
    /\ call.writes < MaxMutations
    /\ \E k \in SnapshotKeys, v \in SnapshotValues :
         IF ret[1].ref = "f.facts"
         THEN /\ fset' = [fset EXCEPT !.facts = FactSetSet(fset.facts, k, v)]
              /\ UNCHANGED ret
         ELSE /\ ret' = <<[ret[1] EXCEPT !.m = FactSetSet(ret[1].m, k, v)]>>
              /\ UNCHANGED fset
    /\ call' = [call EXCEPT !.writes = @ + 1]
    /\ UNCHANGED <<engineVars, mu, evalVars, ctxDone, logs, invoiceStatus, cond, condValue,
                   execResult, inmem, workers, registry, heap>>

NextSnapshot == SnapshotSet \/ SnapshotCall \/ SnapshotWrite

SpecSnapshot == InitSnapshot /\ [][NextSnapshot]_vars

(* ------------------------------------------------------------------ *)
(* FactSet.GetPath on its own: FactSets with facts a, a.b and b,      *)
(* scalar or nested, and every path over three segment names.         *)
(* ------------------------------------------------------------------ *)
MaxPath == 3

PathSegments == {"a", "b", "c"}

Paths == UNION {[1..n -> PathSegments] : n \in 1..MaxPath}

StoredNames == {<<"a">>, <<"a", "b">>, <<"b">>}

StoredValues ==
    {Num(1), MapV([b |-> Num(2)]), MapV([b |-> MapV([c |-> Num(3)])]), MapV([c |-> Num(4)])}

PathFactSets == UNION {[D -> StoredValues] : D \in SUBSET StoredNames}

InitGetPath ==
    /\ InitEngineIdle
    /\ pc = "call"
    /\ call \in [fn : {"GetPath"}, facts : PathFactSets, path : Paths]
    /\ ret = << >>
    /\ inmem = SeededPorts
    /\ fset = NewLockedFactSet
    /\ workers = << >>
    /\ registry = MainRegistry
    /\ heap = << >>

\* The call f.GetPath(path).
GetPathCall ==
    /\ pc = "call"
    /\ call.fn = "GetPath"
    /\ ret' = <<GetPath(call.facts, call.path)>>
    /\ pc' = "called"
    /\ UNCHANGED <<engineVars, mu, req, cContract, cEtag, gatherVars, verdicts, final, resp,
                   execCalls, steps, ctxDone, logs, invoiceStatus, cond, condValue,
                   execResult, call, inmem, fset, workers, registry, heap>>

NextGetPath == GetPathCall

SpecGetPath == InitGetPath /\ [][NextGetPath]_vars

(* ------------------------------------------------------------------ *)
(* The locks around port calls: Engine.mu, Registry.mu, a reloading   *)
(* LoadContract caller, a Register caller, and port calls that may    *)
(* never return.                                                      *)
(* ------------------------------------------------------------------ *)
\* How many Register calls one behaviour makes.
MaxRegisters == 1

RegisterNames == {"invoiceRepo", "auditLog"}

\* Where the fetch goroutine of a fact is in Registry.Get.
GoPc(name) == IF name \in DOMAIN workers THEN workers[name] ELSE "rlock"

\* `c, ok := r.clients[port]` for the port of a fact of the captured contract.
Registered(name) ==
    ContractAt(cContract).Facts[name].Source \in {"port:" \o c : c \in registry.clients}

\* The requests of this scenario: one that fetches two port facts and one
\* that goes straight to Execute.
LockRequests ==
    [Operation : {"pay", "ping"}, Input : {(F_amount :> MapV([value |-> Num(1)]))},
     DryRun : {FALSE}, ContractETag : {""}]

InitLocks ==
    /\ contract = "K1"
    /\ contractETag = "e1"
    /\ larg = <<"K1", "e1">>
    /\ installed = {<<"K1", "e1">>}
    /\ mu = [writer |-> FALSE, readers |-> 0]
    /\ lpc = "idle"
    /\ loads = 1
    /\ epc = "idle"
    /\ etagSeen = ""
    /\ pc = "idle"
    /\ req = NoRequest
    /\ cContract = NoContract
    /\ cEtag = ""
    /\ todo = {}
    /\ running = {}
    /\ ch = << >>
    /\ facts = NewFactSet
    /\ verdicts = << >>
    /\ final = << >>
    /\ resp = NoResponse
    /\ getCalls = 0
    /\ execCalls = 0
    /\ steps = {}
    /\ skipped = {}
    /\ ctxDone = FALSE
    /\ logs = << >>
    /\ invoiceStatus = "approved"
    /\ cond = NoCondition
    /\ condValue = << >>
    /\ execResult = "none"
    /\ call = NoCall
    /\ ret = << >>
    /\ inmem = SeededPorts
    /\ fset = NewLockedFactSet
    /\ workers = << >>
    /\ registry = MainRegistry
    /\ heap = << >>

\* Register: r.mu.Lock()
RegisterLock ==
    /\ registry.rpc = "idle"
    /\ registry.registers < MaxRegisters
    /\ ~registry.mu.writer /\ registry.mu.readers = 0
    /\ \E n \in RegisterNames :
         registry' = [registry EXCEPT !.mu.writer = TRUE, !.rpc = n,
                                      !.registers = @ + 1]
    /\ UNCHANGED <<engineVars, mu, evalVars, ctxDone, logs, invoiceStatus, cond, condValue,
                   execResult, call, ret, inmem, fset, workers, heap>>

\* Register: r.clients[name] = c, then the deferred r.mu.Unlock()
RegisterUnlock ==
    /\ registry.rpc \notin {"idle"}
    /\ registry' = [registry EXCEPT !.clients = @ \cup {registry.rpc},
                                    !.mu.writer = FALSE, !.rpc = "idle"]
    /\ UNCHANGED <<engineVars, mu, evalVars, ctxDone, logs, invoiceStatus, cond, condValue,
                   execResult, call, ret, inmem, fset, workers, heap>>

\* A client sends a request; Evaluate takes the read lock of Engine.mu.
LockedEvalRLock ==
    /\ pc = "idle"
    /\ CanRLock
    /\ \E r \in LockRequests : req' = r
    /\ mu' = [mu EXCEPT !.readers = @ + 1]
    /\ pc' = "read_contract"
    /\ UNCHANGED <<hostVars, engineVars, cContract, cEtag, gatherVars, verdicts, final, resp,
                   execCalls, steps>>

\* Registry.Get in a fetch goroutine: r.mu.RLock()
RegistryRLock ==
    /\ \E name \in running :
         /\ GoPc(name) = "rlock"
         /\ ~registry.mu.writer
         /\ workers' = (name :> "lookup") @@ workers
    /\ registry' = [registry EXCEPT !.mu.readers = @ + 1]
    /\ UNCHANGED <<engineVars, mu, evalVars, ctxDone, logs, invoiceStatus, cond, condValue,
                   execResult, call, ret, inmem, fset, heap>>

\* Faulty variant of RegistryRUnlock: the read lock is kept for c.Get.
RegistryRUnlockDeferred ==
    /\ \E name \in running :
         /\ GoPc(name) = "lookup"
         /\ workers' = (name :> "client") @@ workers
    /\ UNCHANGED <<engineVars, mu, evalVars, ctxDone, logs, invoiceStatus, cond, condValue,
                   execResult, call, ret, inmem, fset, registry, heap>>

\* Registry.Get: c, ok := r.clients[port]; r.mu.RUnlock()
RegistryRUnlock ==
    /\ \E name \in running :
         /\ GoPc(name) = "lookup"
         /\ workers' = (name :> "client") @@ workers
    /\ registry' = [registry EXCEPT !.mu.readers = @ - 1]
    /\ UNCHANGED <<engineVars, mu, evalVars, ctxDone, logs, invoiceStatus, cond, condValue,
                   execResult, call, ret, inmem, fset, heap>>

\* c.Get returns (if it ever does), and the goroutine sends on the channel.
ClientGetReturn ==
    /\ \E name \in running :
         /\ GoPc(name) = "client"
         /\ \E r \in [val : PortValues(name), err : {FALSE}] \cup {[val |-> NilV, err |-> TRUE]} :
              /\ running' = running \ {name}
              /\ ch' = Append(ch, [name |-> name,
                                   val |-> IF Registered(name) THEN r.val ELSE NilV,
                                   err |-> IF Registered(name) THEN r.err ELSE TRUE,
                                   def |-> ContractAt(cContract).Facts[name]])
    /\ getCalls' = getCalls + 1
    /\ UNCHANGED <<hostVars, skipped, engineVars, mu, pc, req, cContract, cEtag, todo, facts,
                   verdicts, final, resp, execCalls, steps>>

\* Registry.Execute: r.mu.RLock()
ExecuteRLock ==
    /\ pc = "execute"
    /\ ~registry.mu.writer
    /\ registry' = [registry EXCEPT !.mu.readers = @ + 1]
    /\ pc' = "exec_lookup"
    /\ UNCHANGED <<engineVars, mu, req, cContract, cEtag, gatherVars, verdicts, final, resp,
                   execCalls, steps, ctxDone, logs, invoiceStatus, cond, condValue,
                   execResult, call, ret, inmem, fset, workers, heap>>

\* Registry.Execute: c, ok := r.clients[port]; r.mu.RUnlock()
ExecuteRUnlock ==
    /\ pc = "exec_lookup"
    /\ registry' = [registry EXCEPT !.mu.readers = @ - 1]
    /\ pc' = "exec_client"
    /\ UNCHANGED <<engineVars, mu, req, cContract, cEtag, gatherVars, verdicts, final, resp,
                   execCalls, steps, ctxDone, logs, invoiceStatus, cond, condValue,
                   execResult, call, ret, inmem, fset, workers, heap>>

\* c.Execute returns (if it ever does); lines 130-152.
ClientExecuteReturn ==
    /\ pc = "exec_client"
    /\ execCalls' = execCalls + 1
    /\ \E failed \in BOOLEAN :
         /\ resp' = executeResponse(verdicts, failed)
         /\ execResult' = IF failed THEN "error" ELSE "ok"
         /\ invoiceStatus' = IF ~failed /\ req.Operation = "pay"
                              THEN "paid" ELSE invoiceStatus
    /\ pc' = "done"
    /\ UNCHANGED <<engineVars, mu, req, cContract, cEtag, gatherVars, verdicts, final, steps,
                   ctxDone, logs, cond, condValue, auxVars>>

NextLocks ==
    \/ LoadLock \/ LoadSetContract \/ LoadSetETag \/ LoadUnlock
    \/ RegisterLock \/ RegisterUnlock
    \/ LockedEvalRLock \/ EvalReadContract \/ EvalReadETag \/ EvalRUnlock \/ EvalCheck
    \/ GatherIter \/ RegistryRLock \/ RegistryRUnlock \/ ClientGetReturn
    \/ Collect \/ GatherReturn
    \/ Derive \/ EvaluateRules \/ ResolveVerdicts \/ ApplyVerdict
    \/ ExecuteRLock \/ ExecuteRUnlock \/ ClientExecuteReturn

\* Every step between a Lock or RLock and its Unlock is straight-line code and
\* is taken; nothing makes a port call return.
FairLocks ==
    /\ WF_vars(LoadSetContract) /\ WF_vars(LoadSetETag) /\ WF_vars(LoadUnlock)
    /\ WF_vars(RegisterUnlock)
    /\ WF_vars(EvalReadContract) /\ WF_vars(EvalReadETag) /\ WF_vars(EvalRUnlock)
    /\ WF_vars(RegistryRUnlock) /\ WF_vars(ExecuteRUnlock)

SpecLocks == InitLocks /\ [][NextLocks]_vars /\ FairLocks

(* ------------------------------------------------------------------ *)
(* Concurrent invocations: several Evaluate calls on K1 run at once,  *)
(* each through gatherFacts, deriveFacts, evaluateRules and the       *)
(* dry-run response, on the FactSet its gatherFacts created.          *)
(* ------------------------------------------------------------------ *)
\* How many Evaluate calls run concurrently.
MaxInvocations == 2

Invocations == 1..MaxInvocations

\* Invocation i's request: its own amount, so that its facts are recognisable.
InvocationRequests(i) ==
    [Operation : {"pay", "view"},
     Input : {(F_amount :> MapV([value |-> Num(2 * i - 1)]))},
     DryRun : {TRUE}, ContractETag : {""}]

\* What the ports answer to invocation i's fetch of a fact.
InvocationPortValue(i, name) ==
    IF name = F_status THEN (IF i % 2 = 1 THEN Str("active") ELSE Str("closed"))
    ELSE IF name = F_processor THEN (IF i % 2 = 1 THEN Str("up") ELSE Str("down"))
    ELSE NilV

\* Faulty variant of NewFactSetAt: every call hands out the same FactSet.
NewFactSetShared(h) == 1

\* facts := NewFactSet(): the address of the FactSet the call allocates.
NewFactSetAt(h) == Cardinality(DOMAIN h) + 1

InitInvocations ==
    /\ InitEngineIdle
    /\ pc = "idle"
    /\ call = NoCall
    /\ ret = << >>
    /\ inmem = SeededPorts
    /\ fset = NewLockedFactSet
    /\ workers \in [Invocations -> [pc : {"start"}, req : UNION {InvocationRequests(i) : i \in Invocations},
                                    facts : {0}, todo : {{}}, verdicts : {<< >>},
                                    resp : {NoResponse}]]
    /\ \A i \in Invocations : workers[i].req \in InvocationRequests(i)
    /\ registry = MainRegistry
    /\ heap = << >>

InvocationUnchanged ==
    UNCHANGED <<engineVars, mu, pc, req, cContract, cEtag, gatherVars, verdicts, final, resp,
                execCalls, steps, ctxDone, logs, invoiceStatus, cond, condValue,
                execResult, call, ret, inmem, fset, registry>>

\* gatherFacts line 165 and 167: the FactSet and the needed facts.
InvNewFactSet(i) ==
    /\ workers[i].pc = "start"
    /\ LET a == NewFactSetAt(heap) IN
       /\ heap' = IF a \in DOMAIN heap THEN heap ELSE heap @@ (a :> NewFactSet)
       /\ workers' = [workers EXCEPT ![i].pc = "gather", ![i].facts = a,
                                     ![i].todo = neededBaseFacts(K1, workers[i].req.Operation)]
    /\ InvocationUnchanged

\* facts.Set(name, val) for one needed fact: an input fact (line 187) or a
\* port result (line 219).
InvGatherFact(i) ==
    /\ workers[i].pc = "gather"
    /\ \E name \in workers[i].todo :
         LET val == IF K1.Facts[name].Source = "input" THEN workers[i].req.Input[name]
                    ELSE InvocationPortValue(i, name) IN
         /\ heap' = [heap EXCEPT ![workers[i].facts] = FactSetSet(@, name, val)]
         /\ workers' = [workers EXCEPT ![i].todo = @ \ {name}]
    /\ InvocationUnchanged

\* Step 2: deriveFacts on the invocation's FactSet.
InvDerive(i) ==
    /\ workers[i].pc = "gather"
    /\ workers[i].todo = {}
    /\ \E iter \in IterOrders(DOMAIN K1.DerivedFacts) :
         heap' = [heap EXCEPT ![workers[i].facts] = deriveFacts(K1, @, iter).facts]
    /\ workers' = [workers EXCEPT ![i].pc = "rules"]
    /\ InvocationUnchanged

\* Step 4: evaluateRules reads the invocation's FactSet.
InvEvaluateRules(i) ==
    /\ workers[i].pc = "rules"
    /\ workers' = [workers EXCEPT ![i].pc = "apply",
                     ![i].verdicts = evaluateRules(K1, workers[i].req.Operation,
                                                   heap[workers[i].facts])]
    /\ UNCHANGED heap
    /\ InvocationUnchanged

\* Step 5 of a dry run: the response carries facts.Snapshot().
InvDryRunResponse(i) ==
    /\ workers[i].pc = "apply"
    /\ workers' = [workers EXCEPT ![i].pc = "done",
                     ![i].resp = applyVerdict(workers[i].req, workers[i].verdicts,
                                              resolveVerdicts(workers[i].verdicts),
                                              heap[workers[i].facts])]
    /\ UNCHANGED heap
    /\ InvocationUnchanged

NextInvocations ==
    \E i \in Invocations :
        \/ InvNewFactSet(i)
        \/ InvGatherFact(i)
        \/ InvDerive(i)
        \/ InvEvaluateRules(i)
        \/ InvDryRunResponse(i)

SpecInvocations == InitInvocations /\ [][NextInvocations]_vars

(* ------------------------------------------------------------------ *)
(* Repeated payments: the executor serves one ProcessPayment request  *)
(* after another against the billing contract and the seeded          *)
(* in-memory repositories.                                            *)
(* ------------------------------------------------------------------ *)
\* How many requests one behaviour serves.
MaxPayments == 2

RepeatAmounts == {0, 1000}

PaymentRequests ==
    [Operation : {"ProcessPayment"},
     Input : {(F_customerId :> Str("cust_123") @@ F_invoiceId :> Str(iv)
               @@ F_amount :> MapV([value |-> Num(am), currency |-> Str("USD")])) :
                 iv \in {"inv_001", "inv_002"}, am \in RepeatAmounts},
     DryRun : {FALSE}, ContractETag : {""}]

\* main.go: the billing contract is loaded before the server starts.
InitPayments ==
    /\ contract = "billing"
    /\ contractETag = "b1"
    /\ larg = <<"billing", "b1">>
    /\ installed = {<<"billing", "b1">>}
    /\ inmem = SeededPorts
    /\ mu = [writer |-> FALSE, readers |-> 0]
    /\ lpc = "idle"
    /\ loads = 1
    /\ epc = "idle"
    /\ etagSeen = ""
    /\ pc = "idle"
    /\ req = NoRequest
    /\ cContract = NoContract
    /\ cEtag = ""
    /\ todo = {}
    /\ running = {}
    /\ ch = << >>
    /\ facts = NewFactSet
    /\ verdicts = << >>
    /\ final = << >>
    /\ resp = NoResponse
    /\ getCalls = 0
    /\ execCalls = 0
    /\ steps = {}
    /\ skipped = {}
    /\ ctxDone = FALSE
    /\ logs = << >>
    /\ invoiceStatus = "approved"
    /\ cond = NoCondition
    /\ condValue = << >>
    /\ execResult = "none"
    /\ call = [fn |-> "Evaluate", ports |-> SeededPorts, served |-> 0]
    /\ ret = << >>
    /\ fset = NewLockedFactSet
    /\ workers = << >>
    /\ registry = MainRegistry
    /\ heap = << >>

\* The handler receives the next request; Evaluate takes the read lock.
PaymentRLock ==
    /\ pc = "idle"
    /\ CanRLock
    /\ call.served < MaxPayments
    /\ \E r \in PaymentRequests : req' = r
    /\ call' = [fn |-> "Evaluate", ports |-> inmem, served |-> call.served + 1]
    /\ mu' = [mu EXCEPT !.readers = @ + 1]
    /\ pc' = "read_contract"
    /\ UNCHANGED <<engineVars, cContract, cEtag, gatherVars, verdicts, final, resp,
                   execCalls, steps, ctxDone, logs, invoiceStatus, cond, condValue,
                   execResult, ret, inmem, fset, workers, registry, heap>>

\* Evaluate has returned and the handler has written the response: the
\* invocation's locals are gone, the repositories keep what Execute stored.
PaymentReturn ==
    /\ pc = "done"
    /\ pc' = "idle"
    /\ req' = NoRequest
    /\ cContract' = NoContract
    /\ cEtag' = ""
    /\ todo' = {}
    /\ running' = {}
    /\ ch' = << >>
    /\ facts' = NewFactSet
    /\ verdicts' = << >>
    /\ final' = << >>
    /\ resp' = NoResponse
    /\ getCalls' = 0
    /\ steps' = {}
    /\ skipped' = {}
    /\ execResult' = "none"
    /\ UNCHANGED <<engineVars, mu, execCalls, ctxDone, logs, invoiceStatus, cond, condValue,
                   call, ret, inmem, fset, workers, registry, heap>>

NextPayments ==
    \/ PaymentRLock \/ EvalReadContract \/ EvalReadETag \/ EvalRUnlock \/ EvalCheck
    \/ GatherIter \/ BillingPortGet \/ Collect \/ GatherReturn
    \/ Derive \/ EvaluateRules \/ ResolveVerdicts \/ ApplyVerdict \/ BillingExecute
    \/ PaymentReturn

SpecPayments == InitPayments /\ [][NextPayments]_vars

(* ------------------------------------------------------------------ *)
(* One Evaluate call on K1 whose port results are fixed beforehand:   *)
(* what each port answers for a fact does not depend on when it is    *)
(* asked.                                                             *)
(* ------------------------------------------------------------------ *)
\* The facts of a contract that come from a port.
PortFacts(c) == {n \in DOMAIN c.Facts : IsPortSource(c.Facts[n].Source)}

\* What a port may answer for a fact: (val, nil) or (nil, err).
PortResults(name) ==
    [val : PortValues(name), err : {FALSE}] \cup {[val |-> NilV, err |-> TRUE]}

\* One answer per port fact.
FixedResults(c) ==
    {f \in [PortFacts(c) -> UNION {PortResults(n) : n \in PortFacts(c)}] :
        \A n \in PortFacts(c) : f[n] \in PortResults(n)}

InitFetches ==
    /\ \E l \in {<<"K1", "e1">>} :
         /\ contract = l[1]
         /\ contractETag = l[2]
         /\ larg = l
         /\ installed = {l}
    /\ mu = [writer |-> FALSE, readers |-> 0]
    /\ lpc = "idle"
    /\ loads = 1
    /\ epc = "idle"
    /\ etagSeen = ""
    /\ pc = "idle"
    /\ req = NoRequest
    /\ cContract = NoContract
    /\ cEtag = ""
    /\ todo = {}
    /\ running = {}
    /\ ch = << >>
    /\ facts = NewFactSet
    /\ verdicts = << >>
    /\ final = << >>
    /\ resp = NoResponse
    /\ getCalls = 0
    /\ execCalls = 0
    /\ steps = {}
    /\ skipped = {}
    /\ ctxDone = FALSE
    /\ logs = << >>
    /\ invoiceStatus \in SeededStatuses
    /\ cond = NoCondition
    /\ condValue = << >>
    /\ execResult = "none"
    /\ call \in [fn : {"Evaluate"}, results : FixedResults(K1)]
    /\ ret = << >>
    /\ inmem = SeededPorts
    /\ fset = NewLockedFactSet
    /\ workers = << >>
    /\ registry = MainRegistry
    /\ heap = << >>

\* A fetch goroutine (lines 197-201) whose ports.Get gives the fixed answer.
FixedPortGet ==
    /\ \E name \in running :
         LET r == call.results[name] IN
            /\ running' = running \ {name}
            /\ ch' = Append(ch, [name |-> name, val |-> r.val, err |-> r.err,
                                 def |-> ContractAt(cContract).Facts[name]])
    /\ getCalls' = getCalls + 1
    /\ UNCHANGED <<hostVars, skipped, engineVars, mu, pc, req, cContract, cEtag, todo, facts, verdicts, final,
                   resp, execCalls, steps>>

NextFetches ==
    \/ EvalRLock \/ EvalReadContract \/ EvalReadETag \/ EvalRUnlock \/ EvalCheck
    \/ GatherIter \/ FixedPortGet \/ Collect \/ GatherReturn
    \/ Derive \/ EvaluateRules \/ ResolveVerdicts \/ ApplyVerdict \/ Execute

SpecFetches == InitFetches /\ [][NextFetches]_vars

(* ------------------------------------------------------------------ *)
(* The fetch goroutines of gatherFacts and the channel they send on:  *)
(* one Evaluate call on K1, each goroutine first in ports.Get and     *)
(* then at `ch <- portResult{...}`.                                   *)
(* ------------------------------------------------------------------ *)
SendRequests ==
    [Operation : {"pay", "view"},
     Input : {<< >>, (F_amount :> MapV([value |-> Num(1)]))},
     DryRun : {FALSE}, ContractETag : {""}]

\* Faulty variant of ChannelCapacity: make(chan portResult).
ChannelUnbuffered(needed) == 0

\* ch := make(chan portResult, len(needed)).
ChannelCapacity(needed) == Cardinality(needed)

\* The capacity of the channel of the invocation under way (no channel before
\* the invocation has its contract).
Capacity ==
    IF cContract = NoContract THEN 0
    ELSE ChannelCapacity(neededBaseFacts(ContractAt(cContract), req.Operation))

\* A send on ch does not block: the buffer has room, or the loop of
\* gatherFacts is waiting to receive.
CanSend == Len(ch) < Capacity \/ (pc = "collect" /\ ch = << >>)

InitSends ==
    /\ \E l \in {<<"K1", "e1">>} :
         /\ contract = l[1]
         /\ contractETag = l[2]
         /\ larg = l
         /\ installed = {l}
    /\ mu = [writer |-> FALSE, readers |-> 0]
    /\ lpc = "idle"
    /\ loads = 1
    /\ epc = "idle"
    /\ etagSeen = ""
    /\ pc = "idle"
    /\ req = NoRequest
    /\ cContract = NoContract
    /\ cEtag = ""
    /\ todo = {}
    /\ running = {}
    /\ ch = << >>
    /\ facts = NewFactSet
    /\ verdicts = << >>
    /\ final = << >>
    /\ resp = NoResponse
    /\ getCalls = 0
    /\ execCalls = 0
    /\ steps = {}
    /\ skipped = {}
    /\ ctxDone = FALSE
    /\ logs = << >>
    /\ invoiceStatus = "approved"
    /\ cond = NoCondition
    /\ condValue = << >>
    /\ execResult = "none"
    /\ call = NoCall
    /\ ret = << >>
    /\ inmem = SeededPorts
    /\ fset = NewLockedFactSet
    /\ workers = << >>
    /\ registry = MainRegistry
    /\ heap = << >>

SendEvalRLock ==
    /\ pc = "idle"
    /\ CanRLock
    /\ \E r \in SendRequests : req' = r
    /\ mu' = [mu EXCEPT !.readers = @ + 1]
    /\ pc' = "read_contract"
    /\ UNCHANGED <<hostVars, engineVars, cContract, cEtag, gatherVars, verdicts, final, resp,
                   execCalls, steps>>

\* e.ports.Get returns in a fetch goroutine (line 199): the goroutine stands
\* at the send of line 200.
FetchGetReturn ==
    /\ \E name \in running :
         \E r \in PortResults(name) :
            /\ running' = running \ {name}
            /\ workers' = (name :> [pc |-> "send", val |-> r.val, err |-> r.err,
                                    returned |-> FALSE]) @@ workers
    /\ getCalls' = getCalls + 1
    /\ UNCHANGED <<engineVars, mu, pc, req, cContract, cEtag, todo, ch, facts, skipped,
                   verdicts, final, resp, execCalls, steps, ctxDone, logs, invoiceStatus,
                   cond, condValue, execResult, call, ret, inmem, fset, registry, heap>>

\* ch <- portResult{...} and the deferred wg.Done() (lines 198, 200).
\* `returned` keeps whether gatherFacts had returned by then.
FetchSend ==
    /\ \E name \in DOMAIN workers :
         /\ workers[name].pc = "send"
         /\ CanSend
         /\ ch' = Append(ch, [name |-> name, val |-> workers[name].val,
                              err |-> workers[name].err,
                              def |-> ContractAt(cContract).Facts[name]])
         /\ workers' = [workers EXCEPT ![name].pc = "done",
                                       ![name].returned = (pc \notin {"gather", "collect"})]
    /\ UNCHANGED <<engineVars, mu, pc, req, cContract, cEtag, todo, running, facts, skipped,
                   getCalls, verdicts, final, resp, execCalls, steps, ctxDone, logs,
                   invoiceStatus, cond, condValue, execResult, call, ret, inmem, fset,
                   registry, heap>>

\* wg.Wait() returned (every goroutine has sent), the channel was closed
\* and drained: gatherFacts returns (facts, nil).
SendGatherReturn ==
    /\ \A name \in DOMAIN workers : workers[name].pc = "done"
    /\ GatherReturn

NextSends ==
    \/ SendEvalRLock \/ EvalReadContract \/ EvalReadETag \/ EvalRUnlock \/ EvalCheck
    \/ GatherIter \/ FetchGetReturn \/ FetchSend \/ Collect \/ SendGatherReturn
    \/ Derive \/ EvaluateRules \/ ResolveVerdicts \/ ApplyVerdict \/ Execute

\* A goroutine that can run its send does run it; nothing makes ports.Get
\* return or the caller go on.
FairSends == WF_vars(FetchSend)

SpecSends == InitSends /\ [][NextSends]_vars /\ FairSends

(* ------------------------------------------------------------------ *)
(* topoSort on its own: every map of up to three derived facts whose  *)
(* derivations refer to one another, to themselves or to a base fact. *)
(* ------------------------------------------------------------------ *)
TopoDerivations ==
    {Derivation("not", <<FactRef(f)>>) : f \in DerivedNames \cup {F_x}}
    \cup {Derivation("and", <<FactRef(f), FactRef(F_x)>>) : f \in DerivedNames}

TopoGraphs == UNION {[S -> TopoDerivations] : S \in (SUBSET DerivedNames) \ {{}}}

InitTopoSort ==
    /\ InitEngineIdle
    /\ pc = "call"
    /\ call \in [fn : {"topoSort"}, dfs : TopoGraphs]
    /\ ret = << >>
    /\ inmem = SeededPorts
    /\ fset = NewLockedFactSet
    /\ workers = << >>
    /\ registry = MainRegistry
    /\ heap = << >>

\* The call topoSort(dfs), under one iteration order of the map.
TopoSortCall ==
    /\ pc = "call"
    /\ call.fn = "topoSort"
    /\ \E iter \in IterOrders(DOMAIN call.dfs) : ret' = <<topoSort(call.dfs, iter)>>
    /\ pc' = "called"
    /\ UNCHANGED <<engineVars, mu, req, cContract, cEtag, gatherVars, verdicts, final, resp,
                   execCalls, steps, ctxDone, logs, invoiceStatus, cond, condValue,
                   execResult, call, inmem, fset, workers, registry, heap>>

NextTopoSort == TopoSortCall

\* The call runs: topoSort has no blocking operation.
FairTopoSort == WF_vars(TopoSortCall)

SpecTopoSort == InitTopoSort /\ [][NextTopoSort]_vars /\ FairTopoSort

(* ------------------------------------------------------------------ *)
(* Properties                                                         *)
(* ------------------------------------------------------------------ *)
AllSteps == {"version", "gather", "derive", "rules"}

Range(seq) == {seq[i] : i \in 1..Len(seq)}

HasType(vs, type) == \E i \in 1..Len(vs) : vs[i].Type = type

\* The winning type under deny > escalate > require > flag, "" for no verdict.
WinningType(vs) ==
    IF HasType(vs, "deny") THEN "deny"
    ELSE IF HasType(vs, "escalate") THEN "escalate"
    ELSE IF HasType(vs, "require") THEN "require"
    ELSE IF HasType(vs, "flag") THEN "flag"
    ELSE ""

Returned == pc = "done"

IsResponse == resp # NoResponse /\ resp.kind = "response"

ErrorCode == IF IsResponse /\ Len(resp.Error) > 0 THEN resp.Error[1].Code ELSE ""

\* Evaluate ended on an error path of steps 1-4.
EarlyError ==
    \/ resp # NoResponse /\ resp.kind = "error"
    \/ ErrorCode \in {"CONTRACT_VERSION_MISMATCH", "FACT_UNAVAILABLE"}

\* Rule evaluation has completed for a live / dry-run invocation.
LiveEvaluated == ~req.DryRun /\ "rules" \in steps /\ pc \in {"apply", "execute", "done"}

WouldOutcomes ==
    {"would_execute", "would_execute_with_flags", "would_deny", "would_escalate",
     "would_require"}

\* C1: Execute is invoked at most once per Evaluate, and only after the version
\* check, gathering, derivation and rule evaluation all completed without error;
\* no error path of those steps invokes it.
C1_ExecuteOnlyAfterCleanSteps ==
    /\ execCalls <= 1
    /\ (execCalls > 0 \/ pc = "execute") => steps = AllSteps
    /\ pc = "execute" => resp = NoResponse
    /\ EarlyError => execCalls = 0

C1_Witness == Returned /\ execCalls = 1 /\ getCalls > 0 /\ steps = AllSteps

\* C2: a live invocation whose highest-priority matched verdict is a require
\* ends with outcome "required" and never calls Execute.
C2_RequireTerminates ==
    (Returned /\ LiveEvaluated /\ WinningType(verdicts) = "require")
        => (IsResponse /\ resp.Outcome = "required" /\ execCalls = 0)

C4_MismatchAlwaysRejected ==
    (Returned /\ req.ContractETag # "" /\ req.ContractETag # cEtag)
        => (IsResponse /\ resp = SystemError("CONTRACT_VERSION_MISMATCH", 409))

\* C4 amended: when a contract is loaded, a non-empty request etag that differs
\* from the captured etag gets outcome system_error with code
\* CONTRACT_VERSION_MISMATCH (409), the same for dry-run and live requests, with
\* no Get and no Execute call; with no contract loaded the request gets the
\* "no contract loaded" error instead; an empty request etag is never rejected
\* for version.
C4_VersionMismatchRejected ==
    /\ (Returned /\ cContract # NoContract /\ req.ContractETag # ""
        /\ req.ContractETag # cEtag)
          => (/\ resp = SystemError("CONTRACT_VERSION_MISMATCH", 409)
              /\ getCalls = 0 /\ execCalls = 0 /\ running = {} /\ steps = {})
    /\ (Returned /\ cContract = NoContract) => resp = ErrorReturn("no contract loaded")
    /\ (req.ContractETag = "" \/ (pc # "idle" /\ req.ContractETag = cEtag))
          => ErrorCode # "CONTRACT_VERSION_MISMATCH"

C4_Witness ==
    /\ Returned /\ req.DryRun /\ cContract # NoContract /\ cEtag = "e2"
    /\ req.ContractETag = "e1" /\ ErrorCode = "CONTRACT_VERSION_MISMATCH"

\* C5: for a live invocation, a matched deny gives outcome "denied" with a
\* matched deny rule's error envelope; an escalate with no deny gives outcome
\* "escalated"; Execute is not called in either case.
C5_DenyAndEscalateTerminate ==
    (LiveEvaluated /\ (HasType(verdicts, "deny") \/ HasType(verdicts, "escalate")))
        => /\ execCalls = 0
           /\ pc # "execute"
           /\ Returned =>
                /\ IsResponse
                /\ HasType(verdicts, "deny") =>
                     /\ resp.Outcome = "denied"
                     /\ \E i \in 1..Len(verdicts) :
                           verdicts[i].Type = "deny" /\ resp.Error = verdicts[i].Error
                /\ ~HasType(verdicts, "deny") => resp.Outcome = "escalated"

C5_Witness ==
    /\ Returned /\ LiveEvaluated /\ resp.Outcome = "escalated"
    /\ HasType(verdicts, "require") /\ HasType(verdicts, "flag")

\* C6: a live invocation whose steps 1-4 all succeeded and whose matched
\* verdicts are only flags (or none) does not return before calling Execute,
\* calls it exactly once, and on success returns "executed" with the port's
\* output and every matched flag verdict.
C6_FlagsProceedToExecute ==
    (LiveEvaluated /\ steps = AllSteps /\ WinningType(verdicts) \in {"", "flag"})
        => /\ pc = "apply" => execCalls = 0
           /\ pc = "execute" => execCalls = 0
           /\ Returned =>
                /\ execCalls = 1
                /\ IsResponse
                /\ \/ ErrorCode = "EXECUTION_FAILED"
                   \/ /\ resp.Outcome = "executed"
                      /\ resp.Output = <<ExecuteOutput>>
                      /\ resp.Verdicts = verdicts

C6_Witness ==
    /\ Returned /\ LiveEvaluated /\ resp.Outcome = "executed"
    /\ Len(verdicts) = 2 /\ WinningType(verdicts) = "flag" /\ resp.Verdicts = verdicts

Captured == pc \notin {"idle", "read_contract", "read_etag"}

\* Every step Evaluate has taken so far used the captured contract.
C7_StepsUseCaptured ==
    (Captured /\ cContract # NoContract /\ pc \notin {"runlock", "check"}) =>
        LET c == ContractAt(cContract)
            needed == neededBaseFacts(c, req.Operation)
        IN
        /\ resp = ErrorReturn("unknown operation")
              <=> (~versionMismatch(req, cEtag) /\ req.Operation \notin DOMAIN c.Operations)
        /\ todo \subseteq needed
        /\ running \subseteq needed
        /\ \A i \in 1..Len(ch) : ch[i].name \in needed /\ ch[i].def = c.Facts[ch[i].name]
        /\ "derive" \notin steps => DOMAIN facts \subseteq needed
        /\ "derive" \in steps =>
              \A d \in DOMAIN c.DerivedFacts :
                  d \in DOMAIN facts /\ facts[d] = evalDerivation(c.DerivedFacts[d], facts).val
        /\ "rules" \in steps => verdicts = evaluateRules(c, req.Operation, facts)

\* C7: an invocation captures one (contract, etag) pair and every later step
\* (operation lookup, needed facts, derivation, rule evaluation) uses that
\* contract; no LoadContract step after the capture changes the pair or what
\* the invocation evaluates against.
C7_InvocationUsesCapturedPair ==
    /\ []C7_StepsUseCaptured
    /\ [][(pc # "idle" /\ pc # "read_contract" => cContract' = cContract)
          /\ (Captured => cEtag' = cEtag)]_vars

C7_Witness ==
    /\ Returned /\ "rules" \in steps /\ contract # cContract
    /\ verdicts # evaluateRules(ContractAt(contract), req.Operation, facts)

\* C8: the (contract, etag) pair an invocation captures was installed together
\* by one LoadContract call (or is the initial empty pair), and ETag returns the
\* etag of an installed pair, under every interleaving with LoadContract.
C8_CapturedPairInstalledTogether ==
    /\ Captured => (<<cContract, cEtag>> \in installed \cup {<<NoContract, "">>})
    /\ etagSeen \in {""} \cup {l[2] : l \in installed}

C8_Witness ==
    /\ pc = "check" /\ <<cContract, cEtag>> \in installed
    /\ lpc = "set_etag" /\ contract # cContract /\ contractETag = cEtag

\* C9: resolveVerdicts returns no verdict exactly when the list is empty, and
\* otherwise one of the listed verdicts whose type is the highest-priority type
\* present under deny > escalate > require > flag, whatever the number and order
\* of lower-priority verdicts.
C9_ResolvePicksHighestPriorityType ==
    pc = "apply" =>
        /\ (Len(final) = 0) <=> (Len(verdicts) = 0)
        /\ Len(verdicts) > 0 =>
              /\ Len(final) = 1
              /\ final[1] \in Range(verdicts)
              /\ final[1].Type = WinningType(verdicts)

C9_Witness ==
    /\ pc = "apply" /\ Len(verdicts) = 3 /\ verdicts[1].Type = "flag"
    /\ verdicts[2].Type = "escalate" /\ verdicts[3].Type = "deny"
    /\ final[1].Type = "deny"

\* C10: every verdict of the winning type is in the result of resolution; no
\* tie-break selects one of them.
C10_AllWinnersRetained ==
    pc = "apply" =>
        \A i \in 1..Len(verdicts) :
            verdicts[i].Type = WinningType(verdicts) => verdicts[i] \in Range(final)

\* The log lines that record an invocation's outcome.
IsOutcomeLine(l) == l.line = "outcome"

AuditRecords == SelectSeq(logs, IsOutcomeLine)

\* C11: every invocation the handler passed to Evaluate, live or dry-run, has
\* emitted exactly one audit record when the handler is done with it, whatever
\* terminal state it reached.
C11_OneAuditRecordPerInvocation ==
    (pc = "replied" /\ resp # NoResponse) => Len(AuditRecords) = 1

\* C12: an invocation whose context was cancelled before the Execute step was
\* entered never calls PortRegistry.Execute.
C12_CancelledNeverExecutes == ctxDone => execCalls = 0

\* The transitions the requested operation declares.
DeclaredTransitions ==
    IF cContract # NoContract /\ req.Operation \in DOMAIN ContractAt(cContract).Operations
    THEN Range(ContractAt(cContract).Operations[req.Operation].Transitions)
    ELSE {}

\* The edges of the entity's state machine an operation's transition may use.
LegalEdge(t) ==
    \E e \in Range(ContractAt(cContract).Entities[t.Entity].Transitions) :
        e.To = t.To /\ (e.From = t.From \/ e.From = "*")

\* Before Execute has run: a declared transition requires another state than
\* the entity is in, or is no edge of the entity's state machine.
TransitionMismatch ==
    /\ execCalls = 0
    /\ \E t \in DeclaredTransitions :
          \/ t.From # "" /\ t.From # invoiceStatus
          \/ ~LegalEdge(t)

\* C13: when the operation's declared transition does not fit the entity's
\* current state, the invocation ends with a validation error and neither rule
\* evaluation nor Execute takes place.
C13_TransitionValidated ==
    TransitionMismatch =>
        /\ "rules" \notin steps
        /\ pc # "execute"
        /\ (Returned /\ "derive" \in steps) => (resp # NoResponse /\ resp.kind = "error")

\* The port-sourced facts among the base facts the operation needs.
PortNeeded ==
    IF cContract # NoContract /\ req.Operation \in DOMAIN ContractAt(cContract).Operations
    THEN LET c == ContractAt(cContract) IN
         {n \in neededBaseFacts(c, req.Operation) :
             n \in DOMAIN c.Facts /\ IsPortSource(c.Facts[n].Source)}
    ELSE {}

FactUnavailableReturned == ErrorCode = "FACT_UNAVAILABLE"

\* The fact the FACT_UNAVAILABLE envelope names.
FailedFact == resp.Error[1].Message

\* Consuming a failed result follows the fact's on_missing policy.
C14_CollectFollowsPolicy ==
    (pc = "collect" /\ ch # << >> /\ ch' = Tail(ch) /\ Head(ch).err) =>
        LET r == Head(ch) IN
        /\ r.name \in PortNeeded
        /\ r.def = ContractAt(cContract).Facts[r.name]
        /\ r.def.OnMissing = "deny" =>
              (pc' = "done" /\ resp' = FactUnavailable(r.name, "denied"))
        /\ r.def.OnMissing \in {"", "system_error"} =>
              (pc' = "done" /\ resp' = FactUnavailable(r.name, "system_error"))
        /\ r.def.OnMissing = "skip" =>
              (pc' = "collect" /\ resp' = NoResponse /\ facts' = facts
               /\ r.name \notin DOMAIN facts /\ skipped' = skipped \cup {r.name})

\* What a FACT_UNAVAILABLE response and a skipped fact imply.
C14_PolicyOutcome ==
    /\ FactUnavailableReturned =>
          /\ Returned
          /\ FailedFact \in PortNeeded
          /\ LET policy == ContractAt(cContract).Facts[FailedFact].OnMissing IN
             /\ policy # "skip"
             /\ resp.Outcome = (IF policy = "deny" THEN "denied" ELSE "system_error")
          /\ "rules" \notin steps /\ verdicts = << >> /\ execCalls = 0
    /\ \A n \in skipped :
          /\ n \in PortNeeded
          /\ ContractAt(cContract).Facts[n].OnMissing = "skip"
          /\ n \notin DOMAIN facts
          /\ ~(FactUnavailableReturned /\ FailedFact = n)

CausedByUnavailableFact ==
    Returned /\ IsResponse /\ "version" \in steps /\ "gather" \notin steps

\* Evaluate answered "denied" from the rules.
BusinessDenial == Returned /\ IsResponse /\ "rules" \in steps /\ resp.Outcome = "denied"

\* The error envelopes the deny rules constraining the operation declare.
DeclaredDenyEnvelopes ==
    LET c == ContractAt(cContract)
        ids == Range(c.Operations[req.Operation].ConstrainedBy)
    IN {c.Rules[i].Verdict.Deny[1].Error :
           i \in {j \in 1..Len(c.Rules) :
                     c.Rules[j].ID \in ids /\ Len(c.Rules[j].Verdict.Deny) > 0}}

FactAbsent == ~GetPath(facts, cond.Fact).ok

\* C16: a leaf condition that references a fact absent from the FactSet (also
\* a dotted path that cannot be resolved) evaluates to false, for every
\* comparison operator and every literal.
C16_AbsentFactLeafIsFalse ==
    (pc = "cond_done" /\ FactAbsent) => condValue = <<FALSE>>

\* The operation needs a required input fact that the request does not carry.
RequiredInputMissing ==
    /\ cContract # NoContract
    /\ req.Operation \in DOMAIN ContractAt(cContract).Operations
    /\ LET c == ContractAt(cContract) IN
       \E n \in neededBaseFacts(c, req.Operation) :
           /\ n \in DOMAIN c.Facts
           /\ c.Facts[n].Source = "input" /\ c.Facts[n].Required
           /\ n \notin DOMAIN req.Input

\* C17: an invocation that needs a required input fact missing from the request
\* ends with the request-validation error, and no PortRegistry.Get call is
\* issued for it.
C17_MissingInputIssuesNoGet ==
    ("version" \in steps /\ RequiredInputMissing) =>
        /\ getCalls = 0
        /\ Returned => resp = ErrorReturn("required input fact missing")

\* Once Evaluate has answered FACT_UNAVAILABLE, nothing is consumed or computed.
C18_NothingAfterFatalFailure ==
    FactUnavailableReturned =>
        /\ pc' = pc /\ resp' = resp /\ facts' = facts /\ skipped' = skipped
        /\ verdicts' = verdicts /\ final' = final /\ steps' = steps
        /\ execCalls' = execCalls
        /\ (ch' = ch \/ (Len(ch') = Len(ch) + 1 /\ SubSeq(ch', 1, Len(ch)) = ch))

\* What holds in every state after a fatal fetch failure.
C18_FatalFailureState ==
    FactUnavailableReturned =>
        /\ Returned
        /\ steps = {"version"}
        /\ verdicts = << >> /\ final = << >> /\ execCalls = 0
        /\ resp.FactSnapshot = << >> /\ resp.Output = << >> /\ resp.Verdicts = << >>

\* C18: once a port fetch has failed under a fatal policy, the results of the
\* sibling fetches, reported already or still in flight, are never used:
\* gatherFacts hands no FactSet on, and the invocation derives nothing,
\* evaluates no rule and does not call Execute.
C18_FatalFailureDiscardsSiblings ==
    []C18_FatalFailureState /\ [][C18_NothingAfterFatalFailure]_vars

C18_Witness ==
    /\ FactUnavailableReturned /\ FailedFact = F_status /\ running = {}
    /\ Len(ch) = 1 /\ ch[1].name = F_processor /\ ~ch[1].err
    /\ F_amount \in DOMAIN facts

\* Fetch tasks started so far, and results the range over the channel consumed.
StartedTasks == Cardinality(running) + getCalls

ConsumedResults == getCalls - Len(ch)

\* C19: within one gather step there is at most one fetch task per needed
\* port-sourced fact and none for any other fact; every one of them has been
\* started before any result is consumed; and gatherFacts returns successfully
\* only after every started task has reported and its result was consumed.
C19_AllStartedBeforeConsumedAndAwaited ==
    /\ running \subseteq PortNeeded
    /\ \A i \in 1..Len(ch) :
          /\ ch[i].name \in PortNeeded \ running
          /\ \A j \in 1..Len(ch) : i # j => ch[i].name # ch[j].name
    /\ StartedTasks <= Cardinality(PortNeeded)
    /\ ConsumedResults > 0 => (todo = {} /\ StartedTasks = Cardinality(PortNeeded))
    /\ "gather" \in steps =>
          (running = {} /\ ch = << >> /\ getCalls = Cardinality(PortNeeded))

C19_Witness ==
    /\ pc = "collect" /\ Cardinality(PortNeeded) = 2 /\ ConsumedResults = 1
    /\ ch = << >> /\ Cardinality(running) = 1

\* The base facts the operation's constraining rules need.
NeededFacts ==
    IF cContract # NoContract /\ req.Operation \in DOMAIN ContractAt(cContract).Operations
    THEN neededBaseFacts(ContractAt(cContract), req.Operation)
    ELSE {}

LeftOut(n) ==
    LET def == ContractAt(cContract).Facts[n] IN
    \/ n \in skipped
    \/ def.Source = "input" /\ ~def.Required /\ n \notin DOMAIN req.Input
    \/ def.Source = "ctx" /\ n # F_roles

Deps(dfs, n) ==
    {dfs[n].Args[i].Fact : i \in 1..Len(dfs[n].Args)} \cap DOMAIN dfs

\* The derived facts reachable from those in S along at most k references.
RECURSIVE ReachFrom(_, _, _)
ReachFrom(dfs, S, k) ==
    IF k = 0 THEN S
    ELSE ReachFrom(dfs, S \cup UNION {Deps(dfs, n) : n \in S}, k - 1)

Acyclic(dfs) ==
    \A n \in DOMAIN dfs : n \notin ReachFrom(dfs, Deps(dfs, n), Cardinality(DOMAIN dfs))

DeriveReturned == pc = "called" /\ call.fn = "deriveFacts"

\* C21: for an acyclic derived-fact graph deriveFacts returns no error, evaluates
\* every derived fact exactly once, each after every derived fact its arguments
\* reference, and stores each result in the same FactSet, where the derivations
\* after it read it: every stored value is what its derivation gives on the
\* final FactSet, and the base facts are untouched.
C21_DeriveInDependencyOrder ==
    (DeriveReturned /\ Acyclic(call.dfs)) =>
        LET r == ret[1] IN
        /\ ~r.err
        /\ Len(r.order) = Cardinality(DOMAIN call.dfs)
        /\ Range(r.order) = DOMAIN call.dfs
        /\ \A i \in 1..Len(r.order) :
              \A d \in Deps(call.dfs, r.order[i]) :
                  \E j \in 1..(i - 1) : r.order[j] = d
        /\ DOMAIN r.facts = DOMAIN call.facts \cup DOMAIN call.dfs
        /\ \A n \in DOMAIN call.facts : r.facts[n] = call.facts[n]
        /\ \A n \in DOMAIN call.dfs :
              r.facts[n] = evalDerivation(call.dfs[n], r.facts).val

C21_Witness ==
    /\ DeriveReturned /\ DOMAIN call.dfs = DerivedNames
    /\ Deps(call.dfs, <<"a">>) = {<<"b">>} /\ Deps(call.dfs, <<"b">>) = {<<"c">>}
    /\ Deps(call.dfs, <<"c">>) = {}
    /\ ret[1].order = << <<"c">>, <<"b">>, <<"a">> >>
    /\ ret[1].facts[<<"a">>] # ret[1].facts[<<"b">>]

\* C22: for a derived-fact graph with a cycle deriveFacts returns an error
\* instead of evaluating the derived facts.
C22_CycleIsAnError ==
    (DeriveReturned /\ ~Acyclic(call.dfs)) =>
        (ret[1].err /\ DOMAIN ret[1].facts = DOMAIN call.facts)

\* The closed derivation library: the cases of evalDerivation's switch.
LibraryFns == {"greater_than", "greater_or_equal", "less_than", "equals", "and", "or", "not"}

\* A derived fact of the captured contract names a function outside the library.
HasUnknownFn ==
    /\ cContract # NoContract
    /\ \E d \in DOMAIN ContractAt(cContract).DerivedFacts :
          ContractAt(cContract).DerivedFacts[d].Fn \notin LibraryFns

\* C23: evalDerivation returns an error exactly for a function outside the
\* library; when a derived fact of the loaded contract names one, an invocation
\* that gathered its facts gets that error from Evaluate and no Response, no
\* rule is evaluated and Execute is not called.
C23_UnknownFunctionIsFatal ==
    /\ cContract # NoContract =>
          \A d \in DOMAIN ContractAt(cContract).DerivedFacts :
              LET dv == ContractAt(cContract).DerivedFacts[d] IN
              evalDerivation(dv, facts).err <=> dv.Fn \notin LibraryFns
    /\ HasUnknownFn =>
          /\ pc \notin {"rules", "resolve", "apply", "execute"}
          /\ "derive" \notin steps /\ "rules" \notin steps
          /\ verdicts = << >> /\ execCalls = 0
          /\ ("gather" \in steps /\ pc # "derive") =>
                (Returned /\ resp = ErrorReturn("derive facts"))

C23_Witness ==
    /\ Returned /\ HasUnknownFn /\ "gather" \in steps
    /\ resp = ErrorReturn("derive facts") /\ F_status \in DOMAIN facts

RulesReturned == pc = "called" /\ call.fn = "evaluateRules"

\* The type of verdict a rule declares.
DeclaredType(v) ==
    IF Len(v.Deny) > 0 THEN "deny"
    ELSE IF Len(v.Escalate) > 0 THEN "escalate"
    ELSE IF Len(v.Require) > 0 THEN "require"
    ELSE "flag"

\* The rule is in the operation's constrained_by and its condition holds.
ListedAndHolds(rule) ==
    /\ rule.ID \in Range(call.by)
    /\ evalCondition(rule.When, call.facts)

\* The verdicts in vs that rule gave: same type, code, reason and queue.
VerdictsOfRule(vs, rule) ==
    {k \in 1..Len(vs) : vs[k] = ruleVerdict(rule.Verdict)[1]
                           /\ vs[k].Type = DeclaredType(rule.Verdict)}

\* C24: only the rules the operation lists in constrained_by are evaluated: a
\* rule not listed contributes no verdict even when its condition holds, and a
\* listed rule whose condition holds contributes exactly one verdict, of its
\* declared type.
C24_OnlyListedRulesContribute ==
    RulesReturned =>
        LET vs == ret[1].verdicts IN
        /\ \A i \in 1..Len(call.rules) :
              Cardinality(VerdictsOfRule(vs, call.rules[i]))
                  = (IF ListedAndHolds(call.rules[i]) THEN 1 ELSE 0)
        /\ Len(vs) = Cardinality({i \in 1..Len(call.rules) : ListedAndHolds(call.rules[i])})

C24_Witness ==
    /\ RulesReturned /\ call.op = "pay" /\ Len(ret[1].verdicts) = 3
    /\ evalCondition(R_confirm.When, call.facts) /\ "confirm" \notin Range(call.by)

\* C25: for a fixed FactSet, every order of the contract's rule list and of the
\* operation's constrained_by list gives the same verdicts, as a set and in
\* number, and the same outcome, live and dry-run.
C25_RuleOrderDoesNotMatter ==
    RulesReturned =>
        LET base == evaluateRules(KR, call.op, call.facts) IN
        /\ Range(ret[1].verdicts) = Range(base)
        /\ Len(ret[1].verdicts) = Len(base)
        /\ ret[1].live = OutcomeOf(call.op, FALSE, base, call.facts)
        /\ ret[1].dry = OutcomeOf(call.op, TRUE, base, call.facts)

C25_Witness ==
    /\ RulesReturned /\ call.rules # KR.Rules /\ call.by # KR.Operations[call.op].ConstrainedBy
    /\ ret[1].live = "denied"
    /\ ret[1].final # resolveVerdicts(evaluateRules(KR, call.op, call.facts))

\* What the combinators mean: all is every child, any is at least one child,
\* not is the negation of the child; a leaf is what evalCondition makes of it.
RECURSIVE TreeHolds(_, _)
TreeHolds(t, fs) ==
    CASE t.kind = "leaf" -> evalCondition(t.leaf, fs)
      [] t.kind = "not" -> ~TreeHolds(t.kids[1], fs)
      [] t.kind = "all" -> \A i \in 1..Len(t.kids) : TreeHolds(t.kids[i], fs)
      [] t.kind = "any" -> \E i \in 1..Len(t.kids) : TreeHolds(t.kids[i], fs)

TreeEvaluated == pc = "cond_done" /\ call.fn = "evalCondition"

\* C26: on every condition tree evalCondition gives the value of the
\* combinators: an all node is true exactly when every child is true, an any
\* node exactly when at least one child is true, a not node exactly when its
\* child is false.
C26_CombinatorsOverAnyTree ==
    TreeEvaluated => condValue[1] = TreeHolds(call.tree, facts)

\* The same for the trees in which every any node has at least one child.
RECURSIVE NoEmptyAny(_)
NoEmptyAny(t) ==
    /\ t.kind = "any" => Len(t.kids) > 0
    /\ \A i \in 1..Len(t.kids) : NoEmptyAny(t.kids[i])

C26_CombinatorsOverNonEmptyAny ==
    (TreeEvaluated /\ NoEmptyAny(call.tree)) => condValue[1] = TreeHolds(call.tree, facts)

\* How the live invocation with this invocation's contract, input and port
\* responses ends at step 5: it gathers the same facts and the same verdicts.
LiveEnd ==
    LET r == applyVerdict([req EXCEPT !.DryRun = FALSE], verdicts, final, facts)
    IN  IF r = NoResponse THEN "reaches Execute" ELSE r.Outcome

\* The live ending a would_* outcome stands for.
StandsFor(outcome) ==
    CASE outcome = "would_deny" -> "denied"
      [] outcome = "would_escalate" -> "escalated"
      [] outcome = "would_require" -> "required"
      [] outcome \in {"would_execute", "would_execute_with_flags"} -> "reaches Execute"
      [] OTHER -> "none"

DryRunEvaluated == Returned /\ req.DryRun /\ IsResponse /\ "rules" \in steps

\* C27: a dry-run's would_* outcome is what the live invocation would have
\* done: would_deny, would_escalate, would_require or would_execute (with or
\* without flags) exactly when the live invocation with the same contract,
\* input and port responses ends as denied, escalated, required or reaches
\* Execute.
C27_DryRunReflectsLive ==
    DryRunEvaluated =>
        /\ StandsFor(resp.Outcome) # "none"
        /\ StandsFor(resp.Outcome) = LiveEnd

\* The same with would_require left out.
C27_DryRunReflectsLiveButRequire ==
    (DryRunEvaluated /\ resp.Outcome # "would_require") =>
        /\ StandsFor(resp.Outcome) # "none"
        /\ StandsFor(resp.Outcome) = LiveEnd

\* PortRegistry.Execute was called and returned an error.
ExecuteFailed == execResult = "error"

\* C28: when PortRegistry.Execute returns an error the response is a
\* system_error with code EXECUTION_FAILED and no output, never denied,
\* escalated or executed.
C28_ExecuteErrorIsSystemError ==
    ExecuteFailed =>
        /\ Returned /\ IsResponse
        /\ resp.Outcome = "system_error"
        /\ resp.Outcome \notin {"denied", "escalated", "executed"}
        /\ ErrorCode = "EXECUTION_FAILED"
        /\ resp.Output = << >>

C28_Witness ==
    /\ ExecuteFailed /\ Returned /\ execCalls = 1
    /\ Len(verdicts) > 0 /\ WinningType(verdicts) = "flag"

\* A live ProcessPayment invocation that began after the processor was forced
\* down (SetStatusDown is the only write of the status, so it stays down).
DownProcessPayment ==
    /\ call.fn = "Evaluate" /\ call.ports.processor = "down"
    /\ req.Operation = "ProcessPayment" /\ ~req.DryRun

\* No invoice's status or balance differs from what it was when the
\* invocation began.
InvoicesUnchanged == inmem.invoices = call.ports.invoices

VerdictCodes == {verdicts[i].Code : i \in 1..Len(verdicts)}

PayableRequest ==
    LET cu == inputString(req.Input, F_customerId)
        iv == inputString(req.Input, F_invoiceId)
    IN  /\ F_amount \in DOMAIN req.Input
        /\ cu \in DOMAIN SeededPorts.customers /\ SeededPorts.customers[cu] # "closed"
        /\ iv \in DOMAIN SeededPorts.invoices
        /\ req.Input[F_amount].m.value.n <= call.ports.invoices[iv].balance

SetReturned(w) == workers[w].pc \in {"get", "get_read", "get_unlock", "done"}

\* The goroutine's Get, which follows its Set, has read the map.
GetReturned(w) == workers[w].pc \in {"get_unlock", "done"}

AllWritersDone == \A w \in DOMAIN workers : workers[w].pc = "done"

\* C30: under every interleaving of the goroutines' Set and Get calls on
\* distinct keys no write is lost or corrupted: once a Set has returned its key
\* holds the value set, the Get that follows returns that value, and when all
\* goroutines have finished every key holds the value written to it.
C30_NoWriteLost ==
    /\ \A w \in DOMAIN workers :
          /\ SetReturned(w) =>
                (workers[w].key \in DOMAIN fset.facts
                 /\ fset.facts[workers[w].key] = workers[w].val)
          /\ GetReturned(w) => workers[w].got = <<workers[w].val>>
    /\ (DOMAIN workers # {} /\ AllWritersDone) =>
          /\ DOMAIN fset.facts = {workers[w].key : w \in DOMAIN workers}
          /\ fset.mu = [writer |-> FALSE, readers |-> 0]

C30_Witness ==
    /\ DOMAIN workers = Writers /\ AllWritersDone
    /\ \A w \in Writers : fset.facts[w] = Num(w) /\ workers[w].got = <<Num(w)>>

SnapshotTaken == pc = "called" /\ call.fn = "Snapshot"

\* C31: Snapshot returns a map holding every fact stored at the time of the
\* call, and the map is an independent copy: adding or replacing its top-level
\* entries afterwards leaves the FactSet's contents unchanged.
C31_SnapshotIsIndependentCopy ==
    SnapshotTaken =>
        /\ call.writes = 0 => mapAt(ret[1], fset) = call.at
        /\ fset.facts = call.at

C31_Witness ==
    /\ SnapshotTaken /\ call.writes > 0
    /\ Cardinality(DOMAIN fset.facts) = 2
    /\ <<"a">> \in DOMAIN fset.facts /\ fset.facts[<<"a">>] = Num(1)
    /\ mapAt(ret[1], fset)[<<"a">>] = Num(999)
    /\ DOMAIN mapAt(ret[1], fset) = SnapshotKeys

NotFound == [val |-> NilV, ok |-> FALSE]

\* Navigation through nested maps, segment by segment from the value: the
\* last segment is looked up in what the segments before it lead to.
RECURSIVE NavigateTo(_, _)
NavigateTo(v, parts) ==
    IF Len(parts) = 0 THEN [val |-> v, ok |-> TRUE]
    ELSE LET r == NavigateTo(v, SubSeq(parts, 1, Len(parts) - 1))
             last == parts[Len(parts)]
         IN  IF r.ok /\ r.val.t = "map" /\ last \in DOMAIN r.val.m
             THEN [val |-> r.val.m[last], ok |-> TRUE]
             ELSE NotFound

\* The lengths of the proper dotted prefixes of path that are stored facts.
StoredPrefixes(fs, path) == {i \in 1..(Len(path) - 1) : SubSeq(path, 1, i) \in DOMAIN fs}

GetPathReturned == pc = "called" /\ call.fn = "GetPath"

\* C32: GetPath(p) returns the stored value when p is stored under its exact
\* name; otherwise it takes the longest proper dotted prefix of p that is a
\* stored fact and navigates the remaining segments through nested maps; it
\* returns not-found when no prefix is stored, when a segment is missing or
\* when navigation reaches a non-map value.
C32_GetPathLongestPrefix ==
    GetPathReturned =>
        LET fs == call.facts
            p == call.path
            I == StoredPrefixes(fs, p)
        IN  IF p \in DOMAIN fs THEN ret[1] = [val |-> fs[p], ok |-> TRUE]
            ELSE IF I = {} THEN ret[1] = NotFound
            ELSE LET i == CHOOSE j \in I : \A k \in I : k <= j
                 IN  ret[1] = NavigateTo(fs[SubSeq(p, 1, i)], SubSeq(p, i + 1, Len(p)))

\* Both a and a.b are stored, the path is a.b.c, and a.b leads to the value
\* while a alone would not.
C32_Witness ==
    /\ GetPathReturned /\ call.path = <<"a", "b", "c">>
    /\ {<<"a">>, <<"a", "b">>} \subseteq DOMAIN call.facts
    /\ call.facts[<<"a">>] = MapV([b |-> Num(2)])
    /\ ret[1] = [val |-> Num(4), ok |-> TRUE]

NoContractCaptured == Captured /\ cContract = NoContract

UnknownOperation ==
    /\ Captured /\ cContract # NoContract
    /\ req.Operation \notin DOMAIN ContractAt(cContract).Operations

\* The request names a contract version and it is not the captured one.
StaleRequest == req.ContractETag # "" /\ req.ContractETag # cEtag

\* C33 as stated: Evaluate called while no contract is loaded, or with an
\* operation the captured contract does not have, returns an error and no
\* Response, and calls neither PortRegistry.Get nor PortRegistry.Execute.
C33_BadCallReturnsError ==
    (Returned /\ (NoContractCaptured \/ UnknownOperation)) =>
        (resp.kind = "error" /\ getCalls = 0 /\ execCalls = 0)

\* C33 amended: such a call makes no PortRegistry.Get and no
\* PortRegistry.Execute call and never gets past the checks of step 1; it
\* returns an error and no Response, except that an unknown operation in a
\* request naming another contract version than the captured one gets the
\* CONTRACT_VERSION_MISMATCH response, the etag being validated first.
C33_BadCallStopsAtStepOne ==
    (NoContractCaptured \/ UnknownOperation) =>
        /\ getCalls = 0 /\ execCalls = 0
        /\ pc \in {"runlock", "check", "done"}
        /\ Returned =>
              IF NoContractCaptured THEN resp = ErrorReturn("no contract loaded")
              ELSE IF StaleRequest
              THEN IsResponse /\ resp.Outcome = "system_error"
                   /\ ErrorCode = "CONTRACT_VERSION_MISMATCH"
              ELSE resp = ErrorReturn("unknown operation")

C33_Witness ==
    /\ Returned /\ UnknownOperation /\ ~StaleRequest
    /\ resp = ErrorReturn("unknown operation") /\ getCalls = 0

\* A port adapter's Get or Execute is running on behalf of the invocation.
PortCallInProgress ==
    \/ pc = "exec_client"
    \/ \E name \in running : GoPc(name) = "client"

\* The invocation holds the read lock of Engine.mu only while it copies the
\* contract pointer and the etag.
EngineLockReaders == IF pc \in {"read_contract", "read_etag", "runlock"} THEN 1 ELSE 0

\* Registry.mu is read-locked only by the callers that are looking a client up.
RegistryLockReaders ==
    Cardinality({name \in running : GoPc(name) = "lookup"})
        + (IF pc = "exec_lookup" THEN 1 ELSE 0)

EngineLockFree == ~mu.writer /\ mu.readers = 0

RegistryLockFree == ~registry.mu.writer /\ registry.mu.readers = 0

\* C34: the engine holds none of its locks across a port call: Engine.mu and
\* Registry.mu are released before a port adapter's Get or Execute runs, so a
\* LoadContract or Register call always completes, even while a port call never
\* returns, and a reload never waits for an evaluation in flight.
C34_NoLockAcrossPortCall ==
    /\ [](/\ mu.readers = EngineLockReaders
          /\ registry.mu.readers = RegistryLockReaders
          /\ PortCallInProgress => (mu.readers = 0 /\ EngineLockReaders = 0))
    /\ []<>EngineLockFree
    /\ []<>RegistryLockFree
    /\ (lpc # "idle") ~> (lpc = "idle")
    /\ (registry.rpc # "idle") ~> (registry.rpc = "idle")

\* A reload and a Register call have both completed while a port call of the
\* invocation is still running.
C34_Witness ==
    /\ PortCallInProgress
    /\ loads > 1 /\ lpc = "idle" /\ contract # cContract
    /\ registry.registers > 0 /\ registry.rpc = "idle"
    /\ EngineLockFree /\ RegistryLockFree

\* The facts invocation i gathers and derives for itself.
OwnFacts(i) ==
    LET needed == neededBaseFacts(K1, workers[i].req.Operation)
        gathered == [name \in needed |->
                        IF K1.Facts[name].Source = "input" THEN workers[i].req.Input[name]
                        ELSE InvocationPortValue(i, name)] IN
    deriveFacts(K1, gathered, <<D_large>>).facts

\* Invocation i's rules have been evaluated.
RulesEvaluated(i) == workers[i].pc \in {"apply", "done"}

\* C35: under every interleaving of concurrent invocations, no two invocations
\* hold the same FactSet; the verdicts of an invocation are those of its own
\* gathered and derived facts, and the fact snapshot of its response holds
\* exactly its own facts.
C35_InvocationsDoNotShareFacts ==
    /\ \A i, j \in Invocations :
         i # j /\ workers[i].facts # 0 => workers[i].facts # workers[j].facts
    /\ \A i \in Invocations :
         /\ RulesEvaluated(i) =>
              workers[i].verdicts = evaluateRules(K1, workers[i].req.Operation, OwnFacts(i))
         /\ workers[i].pc = "done" =>
              workers[i].resp.FactSnapshot = <<Snapshot(OwnFacts(i))>>

\* Two invocations with different facts have both answered, one of them after
\* the other had stored its facts.
C35_Witness ==
    /\ \A i \in Invocations : workers[i].pc = "done"
    /\ workers[1].req.Operation = "view"
    /\ workers[2].req.Operation = "pay"
    /\ workers[1].resp.FactSnapshot # workers[2].resp.FactSnapshot
    /\ Len(workers[2].verdicts) > 1

\* The invoice the request names.
RequestInvoice == inputString(req.Input, F_invoiceId)

\* A ProcessPayment invocation stands at step 6, about to call Execute.
PaymentReachesExecute == pc = "execute" /\ req.Operation = "ProcessPayment"

\* C36 as stated: once a ProcessPayment has executed on an invoice and moved
\* it to paid, no ProcessPayment invocation on that invoice reaches Execute,
\* whatever its amount.  (The seeded repository holds no paid invoice, so an
\* invoice is paid only by an executed ProcessPayment.)
C36_PaidInvoiceNeverExecutedAgain ==
    PaymentReachesExecute => inmem.invoices[RequestInvoice].status # "paid"

\* The loop `for r := range ch` (lines 207-220) over the results in the order
\* they arrive: the response of the first fatal failure, or NoResponse.
RECURSIVE collectLoop(_, _, _, _)
collectLoop(c, results, arrival, i) ==
    IF i > Len(arrival) THEN NoResponse
    ELSE LET name == arrival[i] IN
         IF results[name].err /\ c.Facts[name].OnMissing = "deny"
         THEN FactUnavailable(name, "denied")
         ELSE IF results[name].err /\ c.Facts[name].OnMissing # "skip"
         THEN FactUnavailable(name, "system_error")
         ELSE collectLoop(c, results, arrival, i + 1)

\* The port fetches the request's operation starts.
StartedFetches == neededBaseFacts(K1, req.Operation) \cap PortFacts(K1)

\* Evaluate answered with the response of a failed fetch.
FetchFailureReturned == Returned /\ ErrorCode = "FACT_UNAVAILABLE"

\* C37 as stated: with the contract, the request and each port's answer fixed,
\* the response Evaluate gives for a failed fetch is the one the collecting
\* loop gives under every other arrival order of the same results.
C37_ResponseIndependentOfOrder ==
    FetchFailureReturned =>
        \A arrival \in IterOrders(StartedFetches) :
            collectLoop(K1, call.results, arrival, 1) = resp

\* The fetch goroutine of a fact stands at its send.
AtSend(name) == name \in DOMAIN workers /\ workers[name].pc = "send"

\* The fetch goroutine of a fact has sent its result and ended.
Delivered(name) == name \in DOMAIN workers /\ workers[name].pc = "done"

\* The fetch goroutines started and not yet ended.
FetchesUnderWay == running \cup {name \in DOMAIN workers : workers[name].pc = "send"}

\* gatherFacts returned before its loop had received every result.
ReturnedEarly == pc = "done" /\ "gather" \notin steps

\* C38: the channel has room for the result of every fetch goroutine that has
\* not sent yet, so a goroutine whose Port.Get has returned can always send,
\* and it does send and end, also after gatherFacts has returned early.
C38_FetchSendNeverBlocks ==
    /\ [](Len(ch) + Cardinality(FetchesUnderWay) <= Capacity)
    /\ []((\E name \in DOMAIN workers : workers[name].pc = "send") => CanSend)
    /\ \A name \in PortFacts(K1) : AtSend(name) ~> Delivered(name)

\* gatherFacts returned on the first failed result; the other goroutine's Get
\* returned afterwards and it has sent its result, which nobody will receive.
C38_Witness ==
    /\ ReturnedEarly
    /\ ErrorCode = "FACT_UNAVAILABLE"
    /\ \E name \in DOMAIN workers : Delivered(name) /\ workers[name].returned
    /\ Len(ch) = 1
    /\ running = {}

\* topoSort has returned.
TopoSortReturned == pc = "called" /\ call.fn = "topoSort"

\* The names a derived fact's arguments refer to.
ReferencedBy(dfs, name) ==
    {dfs[name].Args[i].Fact : i \in 1..Len(dfs[name].Args)} \ {NoFact}

\* The order holds every key of dfs exactly once and nothing else.
OrdersExactly(order, dfs) ==
    /\ Len(order) = Cardinality(DOMAIN dfs)
    /\ {order[i] : i \in 1..Len(order)} = DOMAIN dfs

\* C39: topoSort returns for every derived-fact map, cyclic or not, and the
\* order it returns holds each derived fact name exactly once and no name
\* that is not a derived fact.
C39_TopoSortTerminatesWithAllNamesOnce ==
    /\ <>TopoSortReturned
    /\ [](TopoSortReturned => OrdersExactly(ret[1], call.dfs))

\* topoSort returned for a map with a self-reference, a cycle of two facts and
\* a reference to a fact that is not derived.
C39_Witness ==
    /\ TopoSortReturned
    /\ DOMAIN call.dfs = DerivedNames
    /\ ReferencedBy(call.dfs, <<"a">>) = {<<"a">>, F_x}
    /\ <<"c">> \in ReferencedBy(call.dfs, <<"b">>)
    /\ <<"b">> \in ReferencedBy(call.dfs, <<"c">>)
    /\ Len(ret[1]) = 3

\* Where in the call's rule list the listed rules whose condition holds stand.
MatchedAt == {i \in 1..Len(call.rules) : ListedAndHolds(call.rules[i])}

\* Those of them that declare a deny verdict.
MatchedDenyAt == {i \in MatchedAt : DeclaredType(call.rules[i].Verdict) = "deny"}

====
